---- MODULE Spec2Model ----
(***************************************************************************)
(* Maintenance scripts of the gbrfl fantasy-football database, modelled as *)
(* state machines: one specification per script.  A script's state is its  *)
(* local variables, the database tables it reads or writes, the files it   *)
(* reads and its position in main (a pc).  Text cells of CSV files and     *)
(* answers typed at prompts are sequences of one-character strings, so     *)
(* that strip(), lower(), upper(), int() and str() are computed.           *)
(***************************************************************************)
EXTENDS Integers, Sequences, FiniteSets, TLC

(***************************************************************************)
(* Text helpers (Python str methods and int()/str()).                      *)
(***************************************************************************)
RECURSIVE lstrip(_)
lstrip(s) ==
  IF s # <<>> /\ Head(s) = " " THEN lstrip(Tail(s)) ELSE s

RECURSIVE rstrip(_)
rstrip(s) ==
  IF s # <<>> /\ s[Len(s)] = " " THEN rstrip(SubSeq(s, 1, Len(s) - 1)) ELSE s

strip(s) ==
  rstrip(lstrip(s))

LowerChar(c) ==
  CASE c = "A" -> "a" [] c = "B" -> "b" [] c = "C" -> "c" [] c = "D" -> "d"
    [] c = "E" -> "e" [] c = "F" -> "f" [] c = "G" -> "g" [] c = "H" -> "h"
    [] c = "I" -> "i" [] c = "J" -> "j" [] c = "K" -> "k" [] c = "L" -> "l"
    [] c = "M" -> "m" [] c = "N" -> "n" [] c = "O" -> "o" [] c = "P" -> "p"
    [] c = "Q" -> "q" [] c = "R" -> "r" [] c = "S" -> "s" [] c = "T" -> "t"
    [] c = "U" -> "u" [] c = "V" -> "v" [] c = "W" -> "w" [] c = "X" -> "x"
    [] c = "Y" -> "y" [] c = "Z" -> "z"
    [] OTHER -> c

UpperChar(c) ==
  CASE c = "a" -> "A" [] c = "b" -> "B" [] c = "c" -> "C" [] c = "d" -> "D"
    [] c = "e" -> "E" [] c = "f" -> "F" [] c = "g" -> "G" [] c = "h" -> "H"
    [] c = "i" -> "I" [] c = "j" -> "J" [] c = "k" -> "K" [] c = "l" -> "L"
    [] c = "m" -> "M" [] c = "n" -> "N" [] c = "o" -> "O" [] c = "p" -> "P"
    [] c = "q" -> "Q" [] c = "r" -> "R" [] c = "s" -> "S" [] c = "t" -> "T"
    [] c = "u" -> "U" [] c = "v" -> "V" [] c = "w" -> "W" [] c = "x" -> "X"
    [] c = "y" -> "Y" [] c = "z" -> "Z"
    [] OTHER -> c

lower(s) ==
  [i \in 1..Len(s) |-> LowerChar(s[i])]

upper(s) ==
  [i \in 1..Len(s) |-> UpperChar(s[i])]

DigitChars ==
  {"0", "1", "2", "3", "4", "5", "6", "7", "8", "9"}

DigitVal(c) ==
  CASE c = "0" -> 0 [] c = "1" -> 1 [] c = "2" -> 2 [] c = "3" -> 3
    [] c = "4" -> 4 [] c = "5" -> 5 [] c = "6" -> 6 [] c = "7" -> 7
    [] c = "8" -> 8 [] c = "9" -> 9

DigitChar(d) ==
  CASE d = 0 -> "0" [] d = 1 -> "1" [] d = 2 -> "2" [] d = 3 -> "3"
    [] d = 4 -> "4" [] d = 5 -> "5" [] d = 6 -> "6" [] d = 7 -> "7"
    [] d = 8 -> "8" [] d = 9 -> "9"

\* int(s) succeeds: surrounding blanks are ignored, the rest is decimal digits
\* (the cells drawn below carry no sign and no underscore).
IsInt(s) ==
  /\ strip(s) # <<>>
  /\ \A i \in 1..Len(strip(s)) : strip(s)[i] \in DigitChars

RECURSIVE DigitsValue(_)
DigitsValue(s) ==
  IF s = <<>> THEN 0
  ELSE 10 * DigitsValue(SubSeq(s, 1, Len(s) - 1)) + DigitVal(s[Len(s)])

ToInt(s) ==
  DigitsValue(strip(s))

RECURSIVE IntToStr(_)
IntToStr(n) ==
  IF n < 10 THEN <<DigitChar(n)>>
  ELSE Append(IntToStr(n \div 10), DigitChar(n % 10))

Range(f) ==
  {f[x] : x \in DOMAIN f}

\* All sequences over S of length at most n.
SeqsUpTo(S, n) ==
  UNION {[1..k -> S] : k \in 0..n}

(***************************************************************************)
(* State.  One group of variables per script; a specification runs one     *)
(* script and leaves the other groups at their idle values.                *)
(***************************************************************************)
VARIABLES
  \* scripts/import_rosters.py
  r_pc,               \* position in main
  r_file_exists,      \* os.path.exists(ROSTERS_FILE)
  r_csv,              \* rows of rosters.csv
  r_connection,       \* "none", "open", "closed"
  rosters,            \* RosterImporter.rosters
  r_errors,           \* RosterImporter.errors
  fantasy_teams,      \* team_id values of table fantasy_teams
  nfl_player_ids,     \* player_id values of table nfl_players
  ftp_session,        \* fantasy_team_players as the open transaction sees it
  ftp_committed,      \* fantasy_team_players as committed
  r_ftp0,             \* history: fantasy_team_players when the run started
  r_events,           \* history: what main has done so far, in order
  \* scripts/import_keepers_from_csv.py
  k_pc,               \* position in main / import_keepers
  keepers_csv,        \* rows of keepers.csv
  k_keepers,          \* import_keepers: the list keepers
  hk_session,         \* historical_keepers as the open transaction sees it
  hk_committed,       \* historical_keepers as committed
  k_hk0,              \* history: historical_keepers before the first run
  k_ok,               \* history: the last run completed without an exception
  k_tables,           \* history: historical_keepers after each completed run
  \* scripts/import_lineups_to_positions.py
  l_pc,               \* position in main
  l_run,              \* which run of the script this is (1 or 2)
  l_csv,              \* rows of lineups.csv
  l_nfl_players,      \* table nfl_players: rows (player_id, espn_id)
  l_espn_is_text,     \* column nfl_players.espn_id holds text (else integers)
  weekly_schedule,    \* table weekly_schedule: rows (week_number, season_year, game_type)
  weeks_with_bonus_games, \* the cache _weeks_with_bonus_games
  player_mappings,    \* main: player_mappings (the espn_id keys it holds)
  lineups_by_submission, \* main: the groups, in insertion order
  l_i,                \* main: index of the next group of the loop at line 217
  ls_session,         \* lineup_submissions as the open transaction sees it
  ls_committed,       \* lineup_submissions as committed
  lp_session,         \* lineup_positions as the open transaction sees it
  lp_committed,       \* lineup_positions as committed
  l_next_id,          \* next AUTO_INCREMENT value of lineup_submissions
  l_ls0,              \* history: lineup_submissions before the first run
  l_lp0,              \* history: lineup_positions before the first run
  l_returned,         \* history: what get_or_create_lineup_submission returned, per group of this run
  l_db_error,         \* history: some statement raised mysql.connector.Error
  l_after,            \* history: the committed tables after each completed run
  \* scripts/calculate_true_keepers.py, find_missing_keepers.py and
  \* reconstruct_original_keepers.py: what they read
  t_csv,              \* rows of lineups.csv
  t_nfl_players,      \* table nfl_players: rows (player_id, espn_id), espn_id not NULL
  t_ftp,              \* table fantasy_team_players
  draft_picks,        \* table draft_picks: player_id of the season-2025 rows
  \* and their locals
  t_pc,               \* position in main
  drafted,            \* drafted_ids / the keys of drafted_players
  espn_mapping,       \* espn_mapping: pairs (str(espn_id), player_id)
  week1_by_team,      \* week1_by_team / week1_lineups: team -> list of players
  current_keepers,    \* find_missing_keepers: current_keepers, team -> list of players
  keepers_by_team,    \* keepers_by_team: team -> list of keepers
  keeper_map,         \* reconstruct_original_keepers: keeper_map
  t_team_id,          \* find_missing_keepers: team_id of the loop at line 123
  missing_by_team,    \* find_missing_keepers: missing_by_team
  total_missing,      \* find_missing_keepers: total_missing
  sql_values,         \* the VALUES rows written to the output SQL file
  \* scripts/import_player_stats.py
  s_pc,               \* position in process_data
  player_stats,       \* DataFrame player_stats (weekly data, one season)
  schedule,           \* DataFrame schedule
  fumble_plays,       \* the rows of pbp_data with fumble == 1
  stats_columns,      \* the columns of player_stats beyond those of StatRow
  f_i,                \* calculate_sophisticated_fumbles: index of the loop at line 204
  player_stats_lookup, \* calculate_sophisticated_fumbles: player_stats_lookup
  fumble_results,     \* calculate_sophisticated_fumbles: fumble_results
  fumble_data,        \* fumble_summary, the result of calculate_sophisticated_fumbles
  merged_data,        \* process_data: merged_data
  final_data,         \* process_data: final_data
  \* scripts/import_player_stats.py: main and import_to_database
  m_pc,               \* position in main
  m_env,              \* the environment variables that are set (to a non-empty value)
  m_stdin,            \* standard input can be read
  m_answers,          \* what the user types at the season and confirmation prompts
  m_prompts,          \* history: the input() calls made, in order
  m_events,           \* history: connection opened, summary generated, connection closed
  start_season,       \* main: start_season
  end_season,         \* main: end_season
  data_len,           \* len(processed_data)
  batch_i,            \* import_to_database: i of the loop at line 440
  submitted,          \* history: the slices handed to executemany and their outcome
  successful_imports, \* import_to_database: successful_imports
  m_success,          \* main: success, as a set (empty before the import returns)
  m_result,           \* how main ended
  x_pc,               \* position in the run of an export or keeper tool
  x_script,           \* the script that runs
  x_rows,             \* how many rows its driving query or CSV file yields
  x_todo,             \* the statements the run has still to issue, in order
  x_db,               \* the database: the rows of every table
  x_db0,              \* history: the database when the script started
  x_executed,         \* history: the statements passed to cursor.execute
  x_file              \* history: the statements written to output files

rosterVars ==
  <<r_pc, r_file_exists, r_csv, r_connection, rosters, r_errors, fantasy_teams,
    nfl_player_ids, ftp_session, ftp_committed, r_ftp0, r_events>>

keeperVars ==
  <<k_pc, keepers_csv, k_keepers, hk_session, hk_committed, k_hk0, k_ok, k_tables>>

lineupVars ==
  <<l_pc, l_run, l_csv, l_nfl_players, l_espn_is_text, weekly_schedule,
    weeks_with_bonus_games, player_mappings, lineups_by_submission, l_i,
    ls_session, ls_committed, lp_session, lp_committed, l_next_id, l_ls0, l_lp0,
    l_returned, l_db_error, l_after>>

toolInputs ==
  <<t_csv, t_nfl_players, t_ftp, draft_picks>>

toolVars ==
  <<toolInputs, t_pc, drafted, espn_mapping, week1_by_team, current_keepers,
    keepers_by_team, keeper_map, t_team_id, missing_by_team, total_missing, sql_values>>

statsInputs ==
  <<player_stats, schedule, fumble_plays, stats_columns>>

statsVars ==
  <<statsInputs, s_pc, f_i, player_stats_lookup, fumble_results, fumble_data,
    merged_data, final_data>>

mainInputs ==
  <<m_env, m_stdin, m_answers>>

mainVars ==
  <<mainInputs, m_pc, m_prompts, m_events, start_season, end_season, data_len,
    batch_i, submitted, successful_imports, m_success, m_result>>

frameInputs ==
  <<x_script, x_rows, x_db0>>

frameVars ==
  <<frameInputs, x_pc, x_todo, x_db, x_executed, x_file>>

vars ==
  <<rosterVars, keeperVars, lineupVars, toolVars, statsVars, mainVars, frameVars>>

notRosterVars ==
  <<keeperVars, lineupVars, toolVars, statsVars, mainVars, frameVars>>

notKeeperVars ==
  <<rosterVars, lineupVars, toolVars, statsVars, mainVars, frameVars>>

notLineupVars ==
  <<rosterVars, keeperVars, toolVars, statsVars, mainVars, frameVars>>

notToolVars ==
  <<rosterVars, keeperVars, lineupVars, statsVars, mainVars, frameVars>>

notStatsVars ==
  <<rosterVars, keeperVars, lineupVars, toolVars, mainVars, frameVars>>

notMainVars ==
  <<rosterVars, keeperVars, lineupVars, toolVars, statsVars, frameVars>>

notFrameVars ==
  <<rosterVars, keeperVars, lineupVars, toolVars, statsVars, mainVars>>

(***************************************************************************)
(* The values a script's variables keep while another script runs.         *)
(***************************************************************************)
IdleRosters ==
  /\ r_pc = "idle"
  /\ r_file_exists = FALSE
  /\ r_csv = <<>>
  /\ r_connection = "none"
  /\ rosters = <<>>
  /\ r_errors = <<>>
  /\ fantasy_teams = {}
  /\ nfl_player_ids = {}
  /\ ftp_session = <<>>
  /\ ftp_committed = <<>>
  /\ r_ftp0 = <<>>
  /\ r_events = <<>>

IdleKeepers ==
  /\ k_pc = "idle"
  /\ keepers_csv = <<>>
  /\ k_keepers = <<>>
  /\ hk_session = <<>>
  /\ hk_committed = <<>>
  /\ k_hk0 = <<>>
  /\ k_ok = FALSE
  /\ k_tables = <<>>

IdleLineups ==
  /\ l_pc = "idle"
  /\ l_run = 0
  /\ l_csv = <<>>
  /\ l_nfl_players = {}
  /\ l_espn_is_text = FALSE
  /\ weekly_schedule = {}
  /\ weeks_with_bonus_games = <<>>
  /\ player_mappings = {}
  /\ lineups_by_submission = <<>>
  /\ l_i = 0
  /\ ls_session = {}
  /\ ls_committed = {}
  /\ lp_session = <<>>
  /\ lp_committed = <<>>
  /\ l_next_id = 0
  /\ l_ls0 = {}
  /\ l_lp0 = <<>>
  /\ l_returned = <<>>
  /\ l_db_error = FALSE
  /\ l_after = <<>>

\* The locals of the keeper tools before main starts.
ToolLocalsEmpty ==
  /\ drafted = {}
  /\ espn_mapping = {}
  /\ week1_by_team = <<>>
  /\ current_keepers = <<>>
  /\ keepers_by_team = <<>>
  /\ keeper_map = <<>>
  /\ t_team_id = 0
  /\ missing_by_team = <<>>
  /\ total_missing = 0
  /\ sql_values = <<>>

IdleTools ==
  /\ t_pc = "idle"
  /\ t_csv = <<>>
  /\ t_nfl_players = {}
  /\ t_ftp = {}
  /\ draft_picks = {}
  /\ ToolLocalsEmpty

\* The locals of process_data before it starts.
StatsLocalsEmpty ==
  /\ f_i = 0
  /\ player_stats_lookup = {}
  /\ fumble_results = <<>>
  /\ fumble_data = {}
  /\ merged_data = <<>>
  /\ final_data = <<>>

IdleStats ==
  /\ s_pc = "idle"
  /\ player_stats = <<>>
  /\ schedule = <<>>
  /\ fumble_plays = <<>>
  /\ stats_columns = {}
  /\ StatsLocalsEmpty

\* The locals of main of import_player_stats.py before it starts.
MainLocalsEmpty ==
  /\ m_prompts = <<>>
  /\ m_events = <<>>
  /\ start_season = 0
  /\ end_season = 0
  /\ data_len = 0
  /\ batch_i = 0
  /\ submitted = <<>>
  /\ successful_imports = 0
  /\ m_success = {}
  /\ m_result = "none"

IdleMain ==
  /\ m_pc = "idle"
  /\ m_env = {}
  /\ m_stdin = FALSE
  /\ m_answers = <<>>
  /\ MainLocalsEmpty

IdleFrame ==
  /\ x_pc = "idle"
  /\ x_script = "none"
  /\ x_rows = 0
  /\ x_todo = <<>>
  /\ x_db = <<>>
  /\ x_db0 = <<>>
  /\ x_executed = <<>>
  /\ x_file = <<>>

RestIdleRosters ==
  IdleKeepers /\ IdleLineups /\ IdleTools /\ IdleStats /\ IdleMain /\ IdleFrame

RestIdleKeepers ==
  IdleRosters /\ IdleLineups /\ IdleTools /\ IdleStats /\ IdleMain /\ IdleFrame

RestIdleLineups ==
  IdleRosters /\ IdleKeepers /\ IdleTools /\ IdleStats /\ IdleMain /\ IdleFrame

RestIdleTools ==
  IdleRosters /\ IdleKeepers /\ IdleLineups /\ IdleStats /\ IdleMain /\ IdleFrame

RestIdleStats ==
  IdleRosters /\ IdleKeepers /\ IdleLineups /\ IdleTools /\ IdleMain /\ IdleFrame

RestIdleMain ==
  IdleRosters /\ IdleKeepers /\ IdleLineups /\ IdleTools /\ IdleStats /\ IdleFrame

RestIdleFrame ==
  IdleRosters /\ IdleKeepers /\ IdleLineups /\ IdleTools /\ IdleStats /\ IdleMain

(***************************************************************************)
(* Bounds of the model.                                                    *)
(***************************************************************************)
MaxRosterRows == 2
MaxKeeperRows == 2
MaxKeeperRuns == 2
MaxLineupRows == 2
MaxToolRows == 3
MaxMissingRows == 2
MaxMissing == 2
MaxStatRows == 1
MaxFrameRows == 1

(***************************************************************************)
(* Text constants.                                                         *)
(***************************************************************************)
T_y == <<"y">>
T_yes == <<"y", "e", "s">>
T_TRUE == <<"T", "R", "U", "E">>
T_FALSE == <<"F", "A", "L", "S", "E">>
T_QB == <<"Q", "B">>
T_RB == <<"R", "B">>
T_RC == <<"R", "C">>
T_PK == <<"P", "K">>
T_DU == <<"D", "U">>
T_Draft == <<"D", "r", "a", "f", "t">>
T_Keeper == <<"K", "e", "e", "p", "e", "r">>
T_Trade == <<"T", "r", "a", "d", "e">>
T_FreeAgent == <<"F", "r", "e", "e", " ", "A", "g", "e", "n", "t">>

(***************************************************************************)
(* scripts/import_rosters.py                                               *)
(***************************************************************************)
\* Rows a rosters.csv may hold: two valid rows and one row for each way
\* load_rosters rejects a row.
RosterRowKinds ==
  { [team_name_id |-> <<"1">>, player_name_id |-> <<"1">>, position |-> <<"q", "b">>,
     is_keeper |-> <<"t", "r", "u", "e">>, acquisition_type |-> <<"K", "e", "e", "p", "e", "r", " ">>],
    [team_name_id |-> <<"2">>, player_name_id |-> <<" ", "2">>, position |-> T_RB,
     is_keeper |-> <<"0">>, acquisition_type |-> T_Draft],
    [team_name_id |-> <<"1", "1">>, player_name_id |-> <<"1">>, position |-> T_QB,
     is_keeper |-> <<"1">>, acquisition_type |-> T_Draft],
    [team_name_id |-> <<"1">>, player_name_id |-> <<"x">>, position |-> T_QB,
     is_keeper |-> T_FALSE, acquisition_type |-> T_Draft],
    [team_name_id |-> <<"2">>, player_name_id |-> <<"2">>, position |-> <<"W", "R">>,
     is_keeper |-> T_TRUE, acquisition_type |-> T_Trade],
    [team_name_id |-> <<"2">>, player_name_id |-> <<"1">>, position |-> T_PK,
     is_keeper |-> <<"y">>, acquisition_type |-> T_FreeAgent] }

\* Rows fantasy_team_players may hold before the run.
RosterTables ==
  { <<>>,
    <<[fantasy_team_id |-> 1, player_id |-> 2, acquisition_type |-> T_Trade, is_keeper |-> FALSE]>> }

IsKeeperParses(row) ==
  upper(strip(row.is_keeper)) \in {T_TRUE, <<"1">>, T_FALSE, <<"0">>}

\* Why load_rosters rejects a row ("none": it accepts it).
RowError(row) ==
  CASE ~IsKeeperParses(row) -> "parse"
    [] ~IsInt(row.team_name_id) -> "parse"
    [] ~IsInt(row.player_name_id) -> "parse"
    [] ~(1 <= ToInt(row.team_name_id) /\ ToInt(row.team_name_id) <= 10) -> "team_name_id"
    [] ToInt(row.player_name_id) <= 0 -> "player_name_id"
    [] upper(strip(row.position)) \notin {T_QB, T_RB, T_RC, T_PK, T_DU} -> "position"
    [] strip(row.acquisition_type) \notin {T_Draft, T_Keeper, T_Trade, T_FreeAgent} -> "acquisition_type"
    [] OTHER -> "none"

RosterEntry(row, row_num) ==
  [row_num |-> row_num,
   team_name_id |-> ToInt(row.team_name_id),
   player_name_id |-> ToInt(row.player_name_id),
   position |-> upper(strip(row.position)),
   is_keeper |-> upper(strip(row.is_keeper)) \in {T_TRUE, <<"1">>},
   acquisition_type |-> strip(row.acquisition_type)]

\* The loop of load_rosters over rows i..Len(csv): <<rosters, errors>>.
RECURSIVE LoadRows(_, _, _, _)
LoadRows(csv, i, acc, errs) ==
  IF i > Len(csv) THEN <<acc, errs>>
  ELSE IF RowError(csv[i]) = "none"
       THEN LoadRows(csv, i + 1, Append(acc, RosterEntry(csv[i], i + 1)), errs)
       ELSE LoadRows(csv, i + 1, acc, Append(errs, [row_num |-> i + 1, kind |-> RowError(csv[i])]))

\* load_rosters returns True.
LoadRostersOk(errs) ==
  errs = <<>>

\* validate_database_references: "ok" (True), a reason for False, or
\* "sql_error" (the IN () of an empty roster list is a syntax error that
\* main does not catch).
ValidateReferences(rs, teams, players) ==
  LET team_ids == {rs[i].team_name_id : i \in 1..Len(rs)}
      player_ids == {rs[i].player_name_id : i \in 1..Len(rs)}
  IN  CASE rs = <<>> -> "sql_error"
        [] team_ids \ teams # {} -> "missing_teams"
        [] player_ids \ players # {} -> "missing_players"
        [] \E i, j \in 1..Len(rs) : i # j /\ rs[i].player_name_id = rs[j].player_name_id -> "duplicates"
        [] OTHER -> "ok"

\* A main that stops only on the answer 'n'.
ProceedConfirmed_AnyButNo(response) ==
  lower(strip(response)) # <<"n">>

\* main: the answer to "Proceed with import? (y/N)" lets the run go on.
ProceedConfirmed(response) ==
  lower(strip(response)) = T_y

\* clear_existing_data: the answer to "Continue? (yes/no)" lets it delete.
DeleteConfirmed(response) ==
  lower(strip(response)) = T_yes

\* What a user may type at a prompt.
Responses ==
  {<<"y">>, <<"Y", " ">>, <<"n">>, <<>>, <<"y", "e", "s">>, <<" ", "Y", "E", "S">>}

Event(ev, ok, text, n) ==
  [ev |-> ev, ok |-> ok, text |-> text, n |-> n]

InsertedRow(r) ==
  [fantasy_team_id |-> r.team_name_id, player_id |-> r.player_name_id,
   acquisition_type |-> r.acquisition_type, is_keeper |-> r.is_keeper]

InitRosters ==
  /\ RestIdleRosters
  /\ r_pc = "validate_file"
  /\ r_file_exists \in BOOLEAN
  /\ r_csv \in SeqsUpTo(RosterRowKinds, MaxRosterRows)
  /\ r_connection = "none"
  /\ rosters = <<>>
  /\ r_errors = <<>>
  /\ fantasy_teams \in {{1, 2}, {1}}
  /\ nfl_player_ids \in {{1, 2}, {2}}
  /\ ftp_committed \in RosterTables
  /\ ftp_session = ftp_committed
  /\ r_ftp0 = ftp_committed
  /\ r_events = <<>>

\* main, lines 330-332.
validate_file ==
  /\ r_pc = "validate_file"
  /\ r_events' = Append(r_events, Event("validate_file", r_file_exists, <<>>, 0))
  /\ r_pc' = IF r_file_exists THEN "connect" ELSE "done"
  /\ UNCHANGED <<r_file_exists, r_csv, r_connection, rosters, r_errors, fantasy_teams,
                 nfl_player_ids, ftp_session, ftp_committed, r_ftp0>>
  /\ UNCHANGED notRosterVars

\* main, lines 334-336.
connect_to_database ==
  /\ r_pc = "connect"
  /\ \E ok \in BOOLEAN :
       /\ r_events' = Append(r_events, Event("connect", ok, <<>>, 0))
       /\ r_connection' = IF ok THEN "open" ELSE "none"
       /\ r_pc' = IF ok THEN "load" ELSE "done"
  /\ UNCHANGED <<r_file_exists, r_csv, rosters, r_errors, fantasy_teams,
                 nfl_player_ids, ftp_session, ftp_committed, r_ftp0>>
  /\ UNCHANGED notRosterVars

\* main, lines 339-342.
load_rosters ==
  /\ r_pc = "load"
  /\ LET res == LoadRows(r_csv, 1, <<>>, <<>>)
     IN  /\ rosters' = res[1]
         /\ r_errors' = res[2]
         /\ r_events' = Append(r_events, Event("load_rosters", LoadRostersOk(res[2]), <<>>, Len(res[2])))
         /\ r_pc' = IF LoadRostersOk(res[2]) THEN "validate_db" ELSE "close"
  /\ UNCHANGED <<r_file_exists, r_csv, r_connection, fantasy_teams,
                 nfl_player_ids, ftp_session, ftp_committed, r_ftp0>>
  /\ UNCHANGED notRosterVars

\* main, lines 344-347.
validate_database_references ==
  /\ r_pc = "validate_db"
  /\ LET res == ValidateReferences(rosters, fantasy_teams, nfl_player_ids)
     IN  /\ r_events' = Append(r_events, Event("validate_db", res = "ok", <<>>, 0))
         /\ r_pc' = IF res = "ok" THEN "confirm" ELSE "close"
  /\ UNCHANGED <<r_file_exists, r_csv, r_connection, rosters, r_errors, fantasy_teams,
                 nfl_player_ids, ftp_session, ftp_committed, r_ftp0>>
  /\ UNCHANGED notRosterVars

\* main, lines 349-357.
confirm_import ==
  /\ r_pc = "confirm"
  /\ \E response \in Responses :
       /\ r_events' = Append(r_events, Event("proceed_prompt", TRUE, response, 0))
       /\ r_pc' = IF ProceedConfirmed(response) THEN "clear" ELSE "close"
  /\ UNCHANGED <<r_file_exists, r_csv, r_connection, rosters, r_errors, fantasy_teams,
                 nfl_player_ids, ftp_session, ftp_committed, r_ftp0>>
  /\ UNCHANGED notRosterVars

\* main, lines 359-361, and clear_existing_data.
clear_existing_data ==
  /\ r_pc = "clear"
  /\ \E response \in Responses, db_ok \in BOOLEAN :
       IF DeleteConfirmed(response)
       THEN /\ r_events' = r_events \o <<Event("delete_prompt", TRUE, response, 0),
                                         Event("DELETE", db_ok, <<>>, 0)>>
            /\ ftp_session' = IF db_ok THEN <<>> ELSE ftp_session
            /\ r_pc' = IF db_ok THEN "import" ELSE "close"
       ELSE /\ r_events' = Append(r_events, Event("delete_prompt", TRUE, response, 0))
            /\ ftp_session' = ftp_session
            /\ r_pc' = "close"
  /\ UNCHANGED <<r_file_exists, r_csv, r_connection, rosters, r_errors, fantasy_teams,
                 nfl_player_ids, ftp_committed, r_ftp0>>
  /\ UNCHANGED notRosterVars

\* main, lines 363-369, and import_rosters(dry_run=False): every roster is
\* inserted; the inserts in `bad` raise mysql.connector.Error.
import_rosters ==
  /\ r_pc = "import"
  /\ \E bad \in SUBSET (1..Len(rosters)) :
       LET good == SelectSeq([i \in 1..Len(rosters) |-> [i |-> i, r |-> rosters[i]]],
                             LAMBDA x : x.i \notin bad)
           rows == [k \in 1..Len(good) |-> InsertedRow(good[k].r)]
           errs == r_errors \o SelectSeq([i \in 1..Len(rosters) |-> [row_num |-> rosters[i].row_num, kind |-> "import"]],
                                         LAMBDA x : \E i \in bad : rosters[i].row_num = x.row_num)
       IN  /\ r_errors' = errs
           /\ IF errs = <<>>
              THEN /\ ftp_session' = ftp_session \o rows
                   /\ ftp_committed' = ftp_session \o rows
                   /\ r_pc' = "verify"
              ELSE /\ ftp_session' = ftp_committed
                   /\ ftp_committed' = ftp_committed
                   /\ r_pc' = "close"
           /\ r_events' = Append(r_events, Event("import_rosters", errs = <<>>, <<>>, Len(rows)))
  /\ UNCHANGED <<r_file_exists, r_csv, r_connection, rosters, fantasy_teams,
                 nfl_player_ids, r_ftp0>>
  /\ UNCHANGED notRosterVars

\* main, line 366: verify_import only reads.
verify_import ==
  /\ r_pc = "verify"
  /\ r_events' = Append(r_events, Event("verify_import", Len(ftp_session) = 210, <<>>, Len(ftp_session)))
  /\ r_pc' = "close"
  /\ UNCHANGED <<r_file_exists, r_csv, r_connection, rosters, r_errors, fantasy_teams,
                 nfl_player_ids, ftp_session, ftp_committed, r_ftp0>>
  /\ UNCHANGED notRosterVars

\* main, lines 371-373: closing the connection drops what was not committed.
close_connection ==
  /\ r_pc = "close"
  /\ r_connection' = "closed"
  /\ ftp_session' = ftp_committed
  /\ r_pc' = "done"
  /\ UNCHANGED <<r_file_exists, r_csv, rosters, r_errors, fantasy_teams,
                 nfl_player_ids, ftp_committed, r_ftp0, r_events>>
  /\ UNCHANGED notRosterVars

NextRosters ==
  \/ validate_file
  \/ connect_to_database
  \/ load_rosters
  \/ validate_database_references
  \/ confirm_import
  \/ clear_existing_data
  \/ import_rosters
  \/ verify_import
  \/ close_connection

SpecRosters ==
  InitRosters /\ [][NextRosters]_vars

\* The events of the run up to and including its first DELETE.
EventNames ==
  [i \in 1..Len(r_events) |-> r_events[i].ev]

DeleteExecuted ==
  \E i \in 1..Len(r_events) : r_events[i].ev = "DELETE"

\* C1: DELETE FROM fantasy_team_players is executed only after, in this
\* order, the rosters file was found, the connection succeeded, load_rosters
\* returned True with zero validation errors, validate_database_references
\* returned True, the user answered 'y' to the proceed prompt and 'yes' to
\* the delete prompt; a run that does not get that far leaves every row of
\* the table as it was.
C1_DeleteOnlyAfterAllChecks ==
  /\ DeleteExecuted =>
       /\ Len(r_events) >= 7
       /\ SubSeq(EventNames, 1, 7) =
            <<"validate_file", "connect", "load_rosters", "validate_db",
              "proceed_prompt", "delete_prompt", "DELETE">>
       /\ r_events[1].ok /\ r_events[2].ok
       /\ r_events[3].ok /\ r_events[3].n = 0
       /\ r_events[4].ok
       /\ lower(strip(r_events[5].text)) = T_y
       /\ lower(strip(r_events[6].text)) = T_yes
  /\ ~DeleteExecuted =>
       /\ ftp_session = r_ftp0
       /\ ftp_committed = r_ftp0

\* A run that deleted the rows of a non-empty table.
C1_Witness ==
  /\ DeleteExecuted
  /\ r_events[Len(r_events)].ev = "DELETE"
  /\ r_events[Len(r_events)].ok
  /\ r_ftp0 # <<>>
  /\ ftp_session = <<>>

(***************************************************************************)
(* scripts/import_keepers_from_csv.py                                      *)
(***************************************************************************)
SEASON == 2025

KEEPER_DATE == "2025-08-25 14:30:48"

\* A column value that may be NULL: the empty set, or the set of its value.
Null == {}

Some(x) == {x}

\* Rows a keepers.csv may hold; the last one makes int() raise ValueError.
KeeperRowKinds ==
  { [team_id |-> <<"1">>, player_id |-> <<"1", "0">>, espn_id |-> <<"1", "0", "1">>],
    [team_id |-> <<"2">>, player_id |-> <<"1", "1">>, espn_id |-> <<>>],
    [team_id |-> <<" ", "1">>, player_id |-> <<"1", "2">>, espn_id |-> <<" ", "7", " ">>],
    [team_id |-> <<"2">>, player_id |-> <<"1", "3">>, espn_id |-> <<" ">>],
    [team_id |-> <<"2">>, player_id |-> <<"x">>, espn_id |-> <<"7">>] }

HkRow(season, team, player, espn, date) ==
  [season_year |-> season, fantasy_team_id |-> team, player_id |-> player,
   espn_id |-> espn, designation_date |-> date]

\* What historical_keepers may hold before the first run.
KeeperTables ==
  { <<>>,
    <<HkRow(2024, 1, 10, Some(101), "2024-08-20 10:00:00")>>,
    <<HkRow(2025, 2, 99, Null, "2025-08-01 00:00:00"),
      HkRow(2024, 1, 10, Some(101), "2024-08-20 10:00:00")>>,
    <<HkRow(2025, 1, 10, Some(101), KEEPER_DATE)>> }

\* import_keepers, lines 39-42: the row parses.
KeeperRowParses(row) ==
  /\ IsInt(row.team_id)
  /\ IsInt(row.player_id)
  /\ strip(row.espn_id) = <<>> \/ IsInt(row.espn_id)

\* import_keepers, lines 39-44: the tuple appended for a row.
KeeperTuple(row) ==
  HkRow(SEASON, ToInt(row.team_id), ToInt(row.player_id),
        IF strip(row.espn_id) # <<>> THEN Some(ToInt(strip(row.espn_id))) ELSE Null,
        KEEPER_DATE)

\* A DELETE that forgets its WHERE clause's effect: nothing is removed.
DeleteSeason_Nothing(table, season) ==
  table

\* import_keepers, line 31: DELETE FROM historical_keepers WHERE season_year = %s.
DeleteSeason(table, season) ==
  SelectSeq(table, LAMBDA r : r.season_year # season)

InitImportKeepers ==
  /\ RestIdleKeepers
  /\ k_pc = "connect"
  /\ keepers_csv \in SeqsUpTo(KeeperRowKinds, MaxKeeperRows)
  /\ k_keepers = <<>>
  /\ hk_committed \in KeeperTables
  /\ hk_session = hk_committed
  /\ k_hk0 = hk_committed
  /\ k_ok = FALSE
  /\ k_tables = <<>>

\* main, line 89: connect_db() returns a connection or raises.
k_connect_db ==
  /\ k_pc = "connect"
  /\ \E ok \in BOOLEAN :
       k_pc' = IF ok THEN "delete" ELSE "done"
  /\ k_ok' = FALSE
  /\ k_keepers' = <<>>
  /\ UNCHANGED <<keepers_csv, hk_session, hk_committed, k_hk0, k_tables>>
  /\ UNCHANGED notKeeperVars

\* import_keepers, lines 29-32.
k_delete_existing ==
  /\ k_pc = "delete"
  /\ hk_session' = DeleteSeason(hk_session, SEASON)
  /\ k_pc' = "read_csv"
  /\ UNCHANGED <<keepers_csv, k_keepers, hk_committed, k_hk0, k_ok, k_tables>>
  /\ UNCHANGED notKeeperVars

\* import_keepers, lines 34-44: a row that does not parse raises ValueError,
\* which main does not catch.
k_read_csv ==
  /\ k_pc = "read_csv"
  /\ IF \A i \in 1..Len(keepers_csv) : KeeperRowParses(keepers_csv[i])
     THEN /\ k_keepers' = [i \in 1..Len(keepers_csv) |-> KeeperTuple(keepers_csv[i])]
          /\ k_pc' = "insert"
     ELSE /\ k_keepers' = k_keepers
          /\ k_pc' = "close"
  /\ UNCHANGED <<keepers_csv, hk_session, hk_committed, k_hk0, k_ok, k_tables>>
  /\ UNCHANGED notKeeperVars

\* import_keepers, lines 46-58: executemany and commit, or a database error.
k_insert_commit ==
  /\ k_pc = "insert"
  /\ \E db_ok \in BOOLEAN :
       IF db_ok
       THEN /\ hk_session' = hk_session \o k_keepers
            /\ hk_committed' = hk_session \o k_keepers
            /\ k_pc' = "verify"
       ELSE /\ hk_session' = hk_session
            /\ hk_committed' = hk_committed
            /\ k_pc' = "close"
  /\ UNCHANGED <<keepers_csv, k_keepers, k_hk0, k_ok, k_tables>>
  /\ UNCHANGED notKeeperVars

\* import_keepers, lines 60-83, and main, lines 92-99: reads only.
k_verify ==
  /\ k_pc = "verify"
  /\ k_ok' = TRUE
  /\ k_tables' = Append(k_tables, hk_committed)
  /\ k_pc' = "close"
  /\ UNCHANGED <<keepers_csv, k_keepers, hk_session, hk_committed, k_hk0>>
  /\ UNCHANGED notKeeperVars

\* main, lines 101-103: closing drops what was not committed.
k_close ==
  /\ k_pc = "close"
  /\ hk_session' = hk_committed
  /\ k_pc' = "done"
  /\ UNCHANGED <<keepers_csv, k_keepers, hk_committed, k_hk0, k_ok, k_tables>>
  /\ UNCHANGED notKeeperVars

\* The script is run again on the same keepers.csv.
k_run_again ==
  /\ k_pc = "done"
  /\ Len(k_tables) < MaxKeeperRuns
  /\ k_pc' = "connect"
  /\ UNCHANGED <<keepers_csv, k_keepers, hk_session, hk_committed, k_hk0, k_ok, k_tables>>
  /\ UNCHANGED notKeeperVars

NextImportKeepers ==
  \/ k_connect_db
  \/ k_delete_existing
  \/ k_read_csv
  \/ k_insert_commit
  \/ k_verify
  \/ k_close
  \/ k_run_again

SpecImportKeepers ==
  InitImportKeepers /\ [][NextImportKeepers]_vars

\* C2: after import_keepers completes, the season-2025 rows of
\* historical_keepers are one row per row of keepers.csv (team id, player_id,
\* ESPN id or NULL, KEEPER_DATE) whatever was there before, the rows of other
\* seasons are as before, and every completed run leaves the same table.
C2_ImportReplacesSeason ==
  /\ (k_pc = "done" /\ k_ok) =>
       /\ SelectSeq(hk_committed, LAMBDA r : r.season_year = 2025) =
            [i \in 1..Len(keepers_csv) |->
               [season_year |-> 2025,
                fantasy_team_id |-> ToInt(keepers_csv[i].team_id),
                player_id |-> ToInt(keepers_csv[i].player_id),
                espn_id |-> IF \A j \in 1..Len(keepers_csv[i].espn_id) : keepers_csv[i].espn_id[j] = " "
                            THEN {} ELSE {ToInt(keepers_csv[i].espn_id)},
                designation_date |-> "2025-08-25 14:30:48"]]
       /\ SelectSeq(hk_committed, LAMBDA r : r.season_year # 2025) =
            SelectSeq(k_hk0, LAMBDA r : r.season_year # 2025)
       /\ hk_session = hk_committed
  /\ \A i, j \in 1..Len(k_tables) : k_tables[i] = k_tables[j]

\* A second completed run over a table that held a stale 2025 row and a 2024
\* row, with a CSV of two rows.
C2_Witness ==
  /\ k_pc = "done"
  /\ k_ok
  /\ Len(k_tables) = 2
  /\ Len(keepers_csv) = 2
  /\ \E i \in 1..Len(k_hk0) : k_hk0[i].season_year = 2025
  /\ \E i \in 1..Len(k_hk0) : k_hk0[i].season_year = 2024

(***************************************************************************)
(* scripts/import_lineups_to_positions.py                                  *)
(***************************************************************************)
T_primary == <<"p", "r", "i", "m", "a", "r", "y">>
T_bonus == <<"b", "o", "n", "u", "s">>
T_HeadCoach == <<"H", "e", "a", "d", "C", "o", "a", "c", "h">>
T_DEF == <<"D", "E", "F">>

LINEUP_SEASON == 2025

StartsWith(s, prefix) ==
  Len(s) >= Len(prefix) /\ SubSeq(s, 1, Len(prefix)) = prefix

\* s[n:]
Drop(s, n) ==
  SubSeq(s, n + 1, Len(s))

\* s.rfind(c) + 1: the last position of c in s, 0 when it is not there.
RFind(s, c) ==
  IF \E i \in 1..Len(s) : s[i] = c
  THEN CHOOSE i \in 1..Len(s) : s[i] = c /\ \A j \in (i + 1)..Len(s) : s[j] # c
  ELSE 0

\* Rows a lineups.csv may hold: by player_id, by ESPN ID, a bonus lineup in
\* week 1 and one in week 2, a head coach, an unknown ESPN ID, and a week
\* that int() rejects.
LineupRowKinds ==
  { [Week |-> <<"1">>, GameType |-> T_primary, TeamID |-> <<"1">>, Position |-> <<"Q", "B", "1">>,
     Player |-> <<"K", " ", "(", "H", ")">>, EspnID |-> <<"7">>, player_id |-> <<"5">>],
    [Week |-> <<"1">>, GameType |-> <<"P", "r", "i", "m", "a", "r", "y", " ">>, TeamID |-> <<"1">>, Position |-> T_RB,
     Player |-> <<"J">>, EspnID |-> <<" ", "8">>, player_id |-> <<>>],
    [Week |-> <<"1">>, GameType |-> T_bonus, TeamID |-> <<"1">>, Position |-> <<"Q", "B", "1">>,
     Player |-> <<"K", " ", "(", "Z", ")">>, EspnID |-> <<>>, player_id |-> <<"5">>],
    [Week |-> <<"2">>, GameType |-> <<"B", "O", "N", "U", "S">>, TeamID |-> <<"2">>, Position |-> T_DEF,
     Player |-> <<"(", "H", ")">>, EspnID |-> <<>>, player_id |-> <<"6">>],
    [Week |-> <<"1">>, GameType |-> T_primary, TeamID |-> <<"1">>, Position |-> T_HeadCoach,
     Player |-> <<"C">>, EspnID |-> <<>>, player_id |-> <<>>],
    [Week |-> <<"1">>, GameType |-> T_primary, TeamID |-> <<"2">>, Position |-> <<"P", "K", "2">>,
     Player |-> <<"M">>, EspnID |-> <<"9", "9">>, player_id |-> <<"x">>],
    [Week |-> <<"x">>, GameType |-> T_primary, TeamID |-> <<"1">>, Position |-> T_QB,
     Player |-> <<"K">>, EspnID |-> <<"7">>, player_id |-> <<"5">>] }

\* Table nfl_teams, by team_code.
NflTeamCodes ==
  {<<"H">>}

NflTeamId(code) ==
  IF code = <<"H">> THEN 1 ELSE 2

\* Table nfl_players.
LineupPlayers ==
  {[player_id |-> 5, espn_id |-> 7], [player_id |-> 6, espn_id |-> 8]}

SubmissionRow(id, team, week, game_type, season) ==
  [lineup_id |-> id, fantasy_team_id |-> team, week_number |-> week,
   game_type |-> game_type, season_year |-> season]

PositionRow(id, pos) ==
  [lineup_id |-> id, position_type |-> pos.position_type, player_id |-> pos.player_id,
   nfl_team_id |-> pos.nfl_team_id, sort_order |-> pos.sort_order]

\* What lineup_submissions and lineup_positions may hold before the first
\* run: nothing, a week-1 primary lineup of team 1, or a week-1 bonus lineup
\* of team 1, each with or without a stored position.
LineupTables ==
  LET stale(id) == <<[lineup_id |-> id, position_type |-> "receiver", player_id |-> 6,
                      nfl_team_id |-> Null, sort_order |-> 3]>>
  IN  { [ls |-> {}, lp |-> <<>>] }
      \cup { [ls |-> {SubmissionRow(1, 1, 1, gt, 2025)}, lp |-> lp] :
               gt \in {T_primary, T_bonus}, lp \in {<<>>, stale(1)} }

\* parse_position_code: the row is kept (position_type is not None).
PositionKept(position) ==
  /\ position # T_HeadCoach
  /\ \E prefix \in {T_QB, T_RB, T_RC, T_PK, T_DEF} : StartsWith(position, prefix)

\* parse_position_code: (position_type, sort_order) of a kept row.
parse_position_code(position) ==
  LET num(n) == IF Len(position) > n THEN ToInt(Drop(position, n)) ELSE 1
  IN  CASE StartsWith(position, T_QB) -> [position_type |-> "quarterback", sort_order |-> num(2)]
        [] StartsWith(position, T_RB) -> [position_type |-> "running_back", sort_order |-> num(2)]
        [] StartsWith(position, T_RC) -> [position_type |-> "receiver", sort_order |-> num(2)]
        [] StartsWith(position, T_PK) -> [position_type |-> "place_kicker", sort_order |-> num(2)]
        [] StartsWith(position, T_DEF) -> [position_type |-> "defense", sort_order |-> num(3)]

\* extract_nfl_team_code and teams_by_code.get: the nfl_team_id, or NULL.
NflTeamOf(player_name) ==
  LET start == RFind(player_name, "(")
      end == RFind(player_name, ")")
      code == IF start > 0 /\ end > 0 THEN strip(SubSeq(player_name, start + 1, end - 1)) ELSE <<>>
  IN  IF code # <<>> /\ code \in NflTeamCodes THEN Some(NflTeamId(code)) ELSE Null

\* main, lines 178-183: the player_id column gives a player (an int that is
\* not 0).
DirectPlayerId(row) ==
  IF strip(row.player_id) # <<>> /\ IsInt(row.player_id) /\ ToInt(row.player_id) # 0
  THEN Some(ToInt(row.player_id)) ELSE Null

\* load_player_mappings keys the dict by the espn_id the driver returns: a
\* CSV cell (text) is a key only when the column holds text.
EspnKeys(players, is_text) ==
  IF is_text THEN {IntToStr(r.espn_id) : r \in players} ELSE {}

MappedPlayerId(players, espn) ==
  (CHOOSE r \in players : IntToStr(r.espn_id) = espn).player_id

\* main, lines 177-195: the player of a row, or NULL when the row is skipped.
RowPlayerId(row, keys, players) ==
  IF DirectPlayerId(row) # Null THEN DirectPlayerId(row)
  ELSE IF strip(row.EspnID) = <<>> THEN Null
  ELSE IF strip(row.EspnID) \notin keys THEN Null
  ELSE Some(MappedPlayerId(players, strip(row.EspnID)))

LineupKey(row) ==
  [team_id |-> ToInt(row.TeamID), week |-> ToInt(row.Week), game_type |-> lower(strip(row.GameType))]

\* main, lines 162-206: the groups after rows i..Len(csv), in insertion order.
RECURSIVE GroupRows(_, _, _, _, _)
GroupRows(csv, i, groups, keys, players) ==
  IF i > Len(csv) THEN groups
  ELSE LET row == csv[i]
           position == strip(row.Position)
       IN  IF ~PositionKept(position) \/ RowPlayerId(row, keys, players) = Null
           THEN GroupRows(csv, i + 1, groups, keys, players)
           ELSE LET pos == [position_type |-> parse_position_code(position).position_type,
                            player_id |-> CHOOSE x \in RowPlayerId(row, keys, players) : TRUE,
                            nfl_team_id |-> NflTeamOf(strip(row.Player)),
                            sort_order |-> parse_position_code(position).sort_order]
                    k == LineupKey(row)
                    at == {j \in 1..Len(groups) : groups[j].key = k}
                IN  IF at = {}
                    THEN GroupRows(csv, i + 1, Append(groups, [key |-> k, positions |-> <<pos>>]), keys, players)
                    ELSE GroupRows(csv, i + 1,
                                   [groups EXCEPT ![CHOOSE j \in at : TRUE].positions = Append(@, pos)],
                                   keys, players)

\* main, lines 163-165: int() accepts the Week and Team ID of every row.
LineupCsvParses(csv) ==
  \A i \in 1..Len(csv) : IsInt(csv[i].Week) /\ IsInt(csv[i].TeamID)

\* A check that finds bonus games in every week.
HasBonusGames_Always(games, week, season_year) ==
  TRUE

\* check_week_has_bonus_games, lines 65-71: the COUNT(*) is positive.
HasBonusGames(games, week, season_year) ==
  \E g \in games : g.week_number = week /\ g.season_year = season_year /\ g.game_type = T_bonus

\* get_or_create_lineup_submission, lines 85-92: the rows the SELECT finds.
ExistingSubmissions(table, key, season_year) ==
  {r \in table : /\ r.fantasy_team_id = key.team_id
                 /\ r.week_number = key.week
                 /\ r.game_type = key.game_type
                 /\ r.season_year = season_year}

\* A DELETE that removes nothing.
DeletePositions_Nothing(table, lineup_id) ==
  table

\* main, line 227: DELETE FROM lineup_positions WHERE lineup_id = %s.
DeletePositions(table, lineup_id) ==
  SelectSeq(table, LAMBDA r : r.lineup_id # lineup_id)

\* The statements of one pass of the loop at line 217 that may raise
\* mysql.connector.Error: the SELECT on lineup_submissions, the DELETE, or the
\* k-th INSERT into lineup_positions of a group of n positions.
FailPoints(n) ==
  {[stmt |-> st, k |-> 0] : st \in {"none", "select", "delete"}}
    \cup {[stmt |-> "insert", k |-> k] : k \in 1..n}

InitLineups ==
  /\ RestIdleLineups
  /\ l_pc = "connect"
  /\ l_run = 1
  /\ l_csv \in SeqsUpTo(LineupRowKinds, MaxLineupRows)
  /\ l_nfl_players = LineupPlayers
  /\ l_espn_is_text \in BOOLEAN
  /\ weekly_schedule \in {{}, {[week_number |-> 2, season_year |-> 2025, game_type |-> T_bonus]},
                          {[week_number |-> 1, season_year |-> 2025, game_type |-> T_bonus],
                           [week_number |-> 2, season_year |-> 2024, game_type |-> T_bonus]}}
  /\ weeks_with_bonus_games = <<>>
  /\ player_mappings = {}
  /\ lineups_by_submission = <<>>
  /\ l_i = 1
  /\ \E t \in LineupTables :
       /\ ls_committed = t.ls
       /\ lp_committed = t.lp
       /\ ls_session = t.ls
       /\ lp_session = t.lp
       /\ l_ls0 = t.ls
       /\ l_lp0 = t.lp
  /\ l_next_id = 2
  /\ l_returned = <<>>
  /\ l_db_error = FALSE
  /\ l_after = <<>>

\* main, lines 136-138: connect_to_db exits the process when it fails.
l_connect_to_db ==
  /\ l_pc = "connect"
  /\ \E ok \in BOOLEAN :
       l_pc' = IF ok THEN "load" ELSE "done"
  /\ UNCHANGED <<l_run, l_csv, l_nfl_players, l_espn_is_text, weekly_schedule,
                 weeks_with_bonus_games, player_mappings, lineups_by_submission, l_i,
                 ls_session, ls_committed, lp_session, lp_committed, l_next_id, l_ls0, l_lp0,
                 l_returned, l_db_error, l_after>>
  /\ UNCHANGED notLineupVars

\* main, lines 140-146: load_player_mappings and load_nfl_teams.
l_load_mappings ==
  /\ l_pc = "load"
  /\ player_mappings' = EspnKeys(l_nfl_players, l_espn_is_text)
  /\ l_pc' = "parse"
  /\ UNCHANGED <<l_run, l_csv, l_nfl_players, l_espn_is_text, weekly_schedule,
                 weeks_with_bonus_games, lineups_by_submission, l_i,
                 ls_session, ls_committed, lp_session, lp_committed, l_next_id, l_ls0, l_lp0,
                 l_returned, l_db_error, l_after>>
  /\ UNCHANGED notLineupVars

\* main, lines 148-215: a Week or Team ID that int() rejects ends the run
\* with a ValueError, before any statement that writes.
l_parse_csv ==
  /\ l_pc = "parse"
  /\ IF LineupCsvParses(l_csv)
     THEN /\ lineups_by_submission' = GroupRows(l_csv, 1, <<>>, player_mappings, l_nfl_players)
          /\ l_pc' = "process"
     ELSE /\ lineups_by_submission' = lineups_by_submission
          /\ l_pc' = "done"
  /\ l_i' = 1
  /\ UNCHANGED <<l_run, l_csv, l_nfl_players, l_espn_is_text, weekly_schedule,
                 weeks_with_bonus_games, player_mappings,
                 ls_session, ls_committed, lp_session, lp_committed, l_next_id, l_ls0, l_lp0,
                 l_returned, l_db_error, l_after>>
  /\ UNCHANGED notLineupVars

\* main, lines 217-247: one pass of the loop, with
\* get_or_create_lineup_submission and check_week_has_bonus_games.  fail_at
\* is the statement that raises mysql.connector.Error; the except clause at
\* line 246 goes on with the next group.
l_process_group ==
  /\ l_pc = "process"
  /\ l_i <= Len(lineups_by_submission)
  /\ LET g == lineups_by_submission[l_i]
         key == g.key
         cache_key == <<key.week, LINEUP_SEASON>>
         is_bonus == key.game_type = T_bonus
         cached == \E j \in 1..Len(weeks_with_bonus_games) : weeks_with_bonus_games[j].key = cache_key
         has_bonus == IF cached
                      THEN (CHOOSE c \in Range(weeks_with_bonus_games) : c.key = cache_key).has_bonus
                      ELSE HasBonusGames(weekly_schedule, key.week, LINEUP_SEASON)
         skipped == is_bonus /\ ~has_bonus
         existing == ExistingSubmissions(ls_session, key, LINEUP_SEASON)
         lineup_id == IF existing # {} THEN (CHOOSE r \in existing : TRUE).lineup_id ELSE l_next_id
         n == Len(g.positions)
     IN  /\ weeks_with_bonus_games' =
              IF is_bonus /\ ~cached
              THEN Append(weeks_with_bonus_games, [key |-> cache_key, has_bonus |-> has_bonus])
              ELSE weeks_with_bonus_games
         /\ IF skipped
            THEN /\ l_returned' = Append(l_returned, [key |-> key, result |-> "None", lineup_id |-> 0])
                 /\ UNCHANGED <<ls_session, lp_session, l_next_id, l_db_error>>
            ELSE \E fail_at \in FailPoints(n) :
                   /\ l_db_error' = (l_db_error \/ fail_at.stmt # "none")
                   /\ IF fail_at.stmt = "select"
                      THEN /\ l_returned' = Append(l_returned, [key |-> key, result |-> "error", lineup_id |-> 0])
                           /\ UNCHANGED <<ls_session, lp_session, l_next_id>>
                      ELSE /\ l_returned' = Append(l_returned, [key |-> key, result |-> "id", lineup_id |-> lineup_id])
                           /\ ls_session' =
                                IF existing # {} THEN ls_session
                                ELSE ls_session \cup {SubmissionRow(l_next_id, key.team_id, key.week,
                                                                    key.game_type, LINEUP_SEASON)}
                           /\ l_next_id' = IF existing # {} THEN l_next_id ELSE l_next_id + 1
                           /\ lp_session' =
                                IF fail_at.stmt = "delete" THEN lp_session
                                ELSE LET upto == IF fail_at.stmt = "none" THEN n ELSE fail_at.k - 1
                                     IN  DeletePositions(lp_session, lineup_id)
                                           \o [k \in 1..upto |-> PositionRow(lineup_id, g.positions[k])]
  /\ l_i' = l_i + 1
  /\ UNCHANGED <<l_pc, l_run, l_csv, l_nfl_players, l_espn_is_text, weekly_schedule,
                 player_mappings, lineups_by_submission,
                 ls_committed, lp_committed, l_ls0, l_lp0, l_after>>
  /\ UNCHANGED notLineupVars

\* main, lines 249-273: commit, the verification query, close.
l_commit ==
  /\ l_pc = "process"
  /\ l_i > Len(lineups_by_submission)
  /\ ls_committed' = ls_session
  /\ lp_committed' = lp_session
  /\ l_after' = Append(l_after, [ls |-> ls_session, lp |-> lp_session, db_error |-> l_db_error])
  /\ l_pc' = "done"
  /\ UNCHANGED <<l_run, l_csv, l_nfl_players, l_espn_is_text, weekly_schedule,
                 weeks_with_bonus_games, player_mappings, lineups_by_submission, l_i,
                 ls_session, lp_session, l_next_id, l_ls0, l_lp0,
                 l_returned, l_db_error>>
  /\ UNCHANGED notLineupVars

\* The script is run a second time on the same lineups.csv: a new process,
\* so the cache and the locals of main start empty.
l_run_again ==
  /\ l_pc = "done"
  /\ l_run = 1
  /\ Len(l_after) = 1
  /\ ~l_db_error
  /\ l_run' = 2
  /\ l_pc' = "connect"
  /\ weeks_with_bonus_games' = <<>>
  /\ player_mappings' = {}
  /\ lineups_by_submission' = <<>>
  /\ l_i' = 1
  /\ l_returned' = <<>>
  /\ UNCHANGED <<l_csv, l_nfl_players, l_espn_is_text, weekly_schedule,
                 ls_session, ls_committed, lp_session, lp_committed, l_next_id, l_ls0, l_lp0,
                 l_db_error, l_after>>
  /\ UNCHANGED notLineupVars

NextLineups ==
  \/ l_connect_to_db
  \/ l_load_mappings
  \/ l_parse_csv
  \/ l_process_group
  \/ l_commit
  \/ l_run_again

SpecLineups ==
  InitLineups /\ [][NextLineups]_vars

\* The rows of lineup_positions of one lineup, in the order stored.
PositionsOf(table, lineup_id) ==
  SelectSeq(table, LAMBDA r : r.lineup_id = lineup_id)

SubmissionsFor(table, key) ==
  {r \in table : /\ r.fantasy_team_id = key.team_id /\ r.week_number = key.week
                 /\ r.game_type = key.game_type /\ r.season_year = 2025}

BonusWithoutGames(key) ==
  /\ key.game_type = T_bonus
  /\ ~\E g \in weekly_schedule :
        g.week_number = key.week /\ g.season_year = 2025 /\ g.game_type = T_bonus

\* C3: for a 'bonus' lineup of a week with no bonus row in weekly_schedule,
\* get_or_create_lineup_submission returns None, no lineup_submissions row is
\* created and no lineup_positions row of that lineup is deleted or inserted;
\* for any other lineup it returns the id of the submission stored for
\* (team, week, game type, season), the one that existed or a new one, and at
\* most one submission is created per key.
C3_BonusSkippedElseOneSubmission ==
  \A i \in 1..Len(l_returned) :
    LET key == l_returned[i].key
        now == SubmissionsFor(ls_session, key)
        before == SubmissionsFor(l_ls0, key)
    IN  IF BonusWithoutGames(key)
        THEN /\ l_returned[i].result = "None"
             /\ now = before
             /\ \A r \in now : PositionsOf(lp_session, r.lineup_id) = PositionsOf(l_lp0, r.lineup_id)
        ELSE /\ l_returned[i].result # "None"
             /\ l_returned[i].result = "id" =>
                  /\ now = {SubmissionRow(l_returned[i].lineup_id, key.team_id, key.week, key.game_type, 2025)}
                  /\ before # {} => now = before

\* A run that skipped a bonus lineup whose submission was already stored with
\* a position, and created a submission for another lineup.
C3_Witness ==
  /\ \E i \in 1..Len(l_returned) :
       /\ BonusWithoutGames(l_returned[i].key)
       /\ SubmissionsFor(l_ls0, l_returned[i].key) # {}
       /\ l_lp0 # <<>>
  /\ \E i \in 1..Len(l_returned) :
       /\ l_returned[i].result = "id"
       /\ SubmissionsFor(l_ls0, l_returned[i].key) = {}

\* C4: after the commit of a run without database errors, the
\* lineup_positions rows of every lineup the run processed are the positions
\* parsed from the CSV for its (team, week, game type), and a second run
\* leaves the tables as the first did.
C4_PositionsReplaced ==
  /\ (l_pc = "done" /\ Len(l_after) = l_run /\ ~l_db_error) =>
       \A i \in 1..Len(l_returned) :
         l_returned[i].result = "id" =>
           /\ lineups_by_submission[i].key = l_returned[i].key
           /\ PositionsOf(lp_committed, l_returned[i].lineup_id) =
                [k \in 1..Len(lineups_by_submission[i].positions) |->
                   [lineup_id |-> l_returned[i].lineup_id,
                    position_type |-> lineups_by_submission[i].positions[k].position_type,
                    player_id |-> lineups_by_submission[i].positions[k].player_id,
                    nfl_team_id |-> lineups_by_submission[i].positions[k].nfl_team_id,
                    sort_order |-> lineups_by_submission[i].positions[k].sort_order]]
  /\ (Len(l_after) = 2 /\ ~l_after[2].db_error) =>
       /\ l_after[2].ls = l_after[1].ls
       /\ \A r \in l_after[2].ls :
            PositionsOf(l_after[2].lp, r.lineup_id) = PositionsOf(l_after[1].lp, r.lineup_id)
       /\ Len(l_after[2].lp) = Len(l_after[1].lp)

\* A second run without database errors over a lineup of two positions whose
\* submission was stored before with another position.
C4_Witness ==
  /\ l_pc = "done"
  /\ Len(l_after) = 2
  /\ ~l_db_error
  /\ l_lp0 # <<>>
  /\ \E i \in 1..Len(l_returned) :
       /\ l_returned[i].result = "id"
       /\ Len(lineups_by_submission[i].positions) = 2
       /\ SubmissionsFor(l_ls0, l_returned[i].key) # {}

(***************************************************************************)
(* What the keeper tools read: lineups.csv, nfl_players, draft_picks,      *)
(* fantasy_team_players.                                                   *)
(***************************************************************************)
T_1 == <<"1">>

\* ESPN ID of the first player of EXCLUDE_PLAYERS, as text.
T_4360234 == <<"4", "3", "6", "0", "2", "3", "4">>

\* Rows a lineups.csv may hold, by the columns the keeper tools read: three
\* Week 1 primary rows of known players (one of them excluded), a row of
\* another week, a bonus row, a row without ESPN ID, one of an unknown ESPN ID.
ToolRowKinds ==
  { [Week |-> T_1, GameType |-> T_primary, EspnID |-> <<"1", "1">>, TeamID |-> <<"1">>],
    [Week |-> T_1, GameType |-> T_primary, EspnID |-> <<" ", "1", "2", " ">>, TeamID |-> <<"1">>],
    [Week |-> T_1, GameType |-> T_primary, EspnID |-> T_4360234, TeamID |-> <<"1", "0">>],
    [Week |-> T_1, GameType |-> T_primary, EspnID |-> <<"1", "3">>, TeamID |-> <<" ", "2">>],
    [Week |-> <<"2">>, GameType |-> T_primary, EspnID |-> <<"1", "1">>, TeamID |-> <<"1">>],
    [Week |-> T_1, GameType |-> T_bonus, EspnID |-> <<"1", "2">>, TeamID |-> <<"2">>],
    [Week |-> T_1, GameType |-> T_primary, EspnID |-> <<" ">>, TeamID |-> <<"1">>],
    [Week |-> T_1, GameType |-> T_primary, EspnID |-> <<"9", "9">>, TeamID |-> <<"1">>] }

\* Table nfl_players, the rows with an espn_id.
ToolPlayers ==
  { [player_id |-> 1, espn_id |-> 11], [player_id |-> 2, espn_id |-> 12],
    [player_id |-> 3, espn_id |-> 4360234], [player_id |-> 4, espn_id |-> 13] }

TeamIds ==
  1..10

\* A defaultdict(list) over the teams.
EmptyByTeam ==
  [team \in TeamIds |-> <<>>]

\* get_espn_mapping / get_espn_to_player_mapping: keys are str(espn_id).
EspnMapping(players) ==
  {[espn |-> IntToStr(r.espn_id), player_id |-> r.player_id] : r \in players}

InMapping(mapping, espn) ==
  \E m \in mapping : m.espn = espn

Lookup(mapping, espn) ==
  [player_id |-> (CHOOSE m \in mapping : m.espn = espn).player_id]

(***************************************************************************)
(* scripts/calculate_true_keepers.py                                       *)
(***************************************************************************)
EXCLUDE_PLAYERS ==
  {4360234, 4249087, 3049899, 4566192, 4567104}

\* parse_week1_lineups, lines 70-75: the row adds a player.
Week1RowKept(row, mapping) ==
  /\ row.Week = T_1
  /\ row.GameType = T_primary
  /\ strip(row.EspnID) # <<>>
  /\ InMapping(mapping, strip(row.EspnID))
  /\ ToInt(strip(row.EspnID)) \notin EXCLUDE_PLAYERS

\* parse_week1_lineups, lines 69-79: the dict after rows i..Len(csv).
RECURSIVE ParseWeek1(_, _, _, _)
ParseWeek1(csv, i, by_team, mapping) ==
  IF i > Len(csv) THEN by_team
  ELSE IF Week1RowKept(csv[i], mapping)
       THEN ParseWeek1(csv, i + 1,
                       [by_team EXCEPT ![ToInt(csv[i].TeamID)] =
                          Append(@, Lookup(mapping, strip(csv[i].EspnID)))],
                       mapping)
       ELSE ParseWeek1(csv, i + 1, by_team, mapping)

\* A calculation that keeps the drafted players.
calculate_keepers_KeepAll(by_team, drafted_ids) ==
  by_team

\* calculate_keepers, lines 85-93.
calculate_keepers(by_team, drafted_ids) ==
  [team \in TeamIds |-> SelectSeq(by_team[team], LAMBDA p : p.player_id \notin drafted_ids)]

\* generate_sql, lines 101-114: all_keepers, by team in ascending order.
RECURSIVE AllKeepers(_, _)
AllKeepers(by_team, team) ==
  IF team > 10 THEN <<>>
  ELSE [k \in 1..Len(by_team[team]) |-> [team_id |-> team, player_id |-> by_team[team][k].player_id]]
         \o AllKeepers(by_team, team + 1)

InitTrueKeepers ==
  /\ RestIdleTools
  /\ t_pc = "get_drafted"
  /\ t_csv \in SeqsUpTo(ToolRowKinds, MaxToolRows)
  /\ t_nfl_players = ToolPlayers
  /\ t_ftp = {}
  /\ draft_picks \in SUBSET {1, 2, 3}
  /\ ToolLocalsEmpty

\* main, line 154: get_drafted_player_ids.
tk_get_drafted_player_ids ==
  /\ t_pc = "get_drafted"
  /\ drafted' = draft_picks
  /\ t_pc' = "get_mapping"
  /\ UNCHANGED <<toolInputs, espn_mapping, week1_by_team, current_keepers, keepers_by_team,
                 keeper_map, t_team_id, missing_by_team, total_missing, sql_values>>
  /\ UNCHANGED notToolVars

\* main, line 155: get_espn_mapping.
tk_get_espn_mapping ==
  /\ t_pc = "get_mapping"
  /\ espn_mapping' = EspnMapping(t_nfl_players)
  /\ t_pc' = "parse"
  /\ UNCHANGED <<toolInputs, drafted, week1_by_team, current_keepers, keepers_by_team,
                 keeper_map, t_team_id, missing_by_team, total_missing, sql_values>>
  /\ UNCHANGED notToolVars

\* main, line 156: parse_week1_lineups.
tk_parse_week1_lineups ==
  /\ t_pc = "parse"
  /\ week1_by_team' = ParseWeek1(t_csv, 1, EmptyByTeam, espn_mapping)
  /\ t_pc' = "calculate"
  /\ UNCHANGED <<toolInputs, drafted, espn_mapping, current_keepers, keepers_by_team,
                 keeper_map, t_team_id, missing_by_team, total_missing, sql_values>>
  /\ UNCHANGED notToolVars

\* main, lines 158-168: calculate_keepers.
tk_calculate_keepers ==
  /\ t_pc = "calculate"
  /\ keepers_by_team' = calculate_keepers(week1_by_team, drafted)
  /\ t_pc' = "generate_sql"
  /\ UNCHANGED <<toolInputs, drafted, espn_mapping, week1_by_team, current_keepers,
                 keeper_map, t_team_id, missing_by_team, total_missing, sql_values>>
  /\ UNCHANGED notToolVars

\* main, lines 170-177: generate_sql writes the file; the database is only read.
tk_generate_sql ==
  /\ t_pc = "generate_sql"
  /\ sql_values' = AllKeepers(keepers_by_team, 1)
  /\ t_pc' = "done"
  /\ UNCHANGED <<toolInputs, drafted, espn_mapping, week1_by_team, current_keepers,
                 keepers_by_team, keeper_map, t_team_id, missing_by_team, total_missing>>
  /\ UNCHANGED notToolVars

NextTrueKeepers ==
  \/ tk_get_drafted_player_ids
  \/ tk_get_espn_mapping
  \/ tk_parse_week1_lineups
  \/ tk_calculate_keepers
  \/ tk_generate_sql

SpecTrueKeepers ==
  InitTrueKeepers /\ [][NextTrueKeepers]_vars

\* The player of nfl_players a CSV row names by its ESPN ID, if any.
RowPlayers(row) ==
  {r \in t_nfl_players : IntToStr(r.espn_id) = strip(row.EspnID)}

\* The rows of lineups.csv of the Week 1 primary lineup of a team that name a
\* known player.
Week1Rows(team) ==
  {i \in 1..Len(t_csv) : /\ t_csv[i].Week = <<"1">>
                         /\ t_csv[i].GameType = <<"p", "r", "i", "m", "a", "r", "y">>
                         /\ IsInt(t_csv[i].TeamID) /\ ToInt(t_csv[i].TeamID) = team
                         /\ RowPlayers(t_csv[i]) # {}}

\* C5: every team's keeper list is its Week 1 primary-lineup players whose
\* ESPN ID maps to a known player and is not in EXCLUDE_PLAYERS, less the
\* drafted players: no drafted and no excluded player is a keeper, and every
\* other Week 1 primary player of the team is one.
C5_KeepersAreWeek1MinusDrafted ==
  (t_pc \in {"generate_sql", "done"}) =>
    \A team \in 1..10 :
      LET rows == {i \in Week1Rows(team) :
                     \E r \in RowPlayers(t_csv[i]) :
                        /\ r.espn_id \notin {4360234, 4249087, 3049899, 4566192, 4567104}
                        /\ r.player_id \notin draft_picks}
          kept == keepers_by_team[team]
      IN  /\ Len(kept) = Cardinality(rows)
          /\ \A k \in 1..Len(kept) :
               /\ kept[k].player_id \notin draft_picks
               /\ \A r \in t_nfl_players :
                    r.player_id = kept[k].player_id => r.espn_id \notin EXCLUDE_PLAYERS
               /\ \E i \in rows : \E r \in RowPlayers(t_csv[i]) : r.player_id = kept[k].player_id
          /\ \A i \in rows : \E k \in 1..Len(kept) :
               \E r \in RowPlayers(t_csv[i]) : r.player_id = kept[k].player_id

\* A run whose CSV names an excluded player and a drafted player, and that
\* keeps a player.
C5_Witness ==
  /\ t_pc = "done"
  /\ \E i \in 1..Len(t_csv) : t_csv[i].EspnID = T_4360234
  /\ \E team \in 1..10 : \E k \in 1..Len(week1_by_team[team]) :
       week1_by_team[team][k].player_id \in draft_picks
  /\ draft_picks # {}
  /\ sql_values # <<>>

(***************************************************************************)
(* Table fantasy_team_players as the keeper tools read it.  `early` is     *)
(* acquisition_date < '2025-08-31 00:00:00'.  Every player_id has a row in *)
(* nfl_players (those outside t_nfl_players without an espn_id), so the    *)
(* JOINs keep every row.                                                   *)
(***************************************************************************)
FtpRow(team, player, acq, keeper, early) ==
  [fantasy_team_id |-> team, player_id |-> player, acquisition_type |-> acq,
   is_keeper |-> keeper, early |-> early]

\* Rows about the players lineups.csv names (1, 2 and 4) and about player 5,
\* a keeper that is in no lineup.
FtpRowKinds ==
  { FtpRow(1, 1, "Keeper", TRUE, TRUE),
    FtpRow(1, 2, "Draft", FALSE, FALSE),
    FtpRow(2, 4, "Draft", TRUE, TRUE),
    FtpRow(1, 5, "Trade", TRUE, TRUE) }

\* n keepers of a team that no lineup names.
Fillers(team, n) ==
  {FtpRow(team, 100 * team + k, "Keeper", TRUE, TRUE) : k \in 1..n}

\* The elements of a finite set of records with a player_id, by player_id.
RECURSIVE ByPlayerId(_)
ByPlayerId(S) ==
  IF S = {} THEN <<>>
  ELSE LET first == CHOOSE r \in S : \A q \in S : r.player_id <= q.player_id
       IN  <<first>> \o ByPlayerId(S \ {first})

(***************************************************************************)
(* scripts/reconstruct_original_keepers.py                                 *)
(***************************************************************************)
\* get_keeper_players, lines 81-95: the rows of the query, ordered by team
\* (and, within a team, by name, here by player_id).
KeeperQuery(ftp) ==
  LET hits == {r \in ftp : r.is_keeper \/ r.acquisition_type = "Keeper"}
      of(team) == ByPlayerId({r \in hits : r.fantasy_team_id = team})
      RECURSIVE from(_)
      from(team) == IF team > 10 THEN <<>> ELSE of(team) \o from(team + 1)
  IN  from(1)

\* get_keeper_players, lines 103-118: keeper_map, in insertion order.
KeeperMap(rows) ==
  [k \in 1..Len(rows) |-> [player_id |-> rows[k].player_id, team_id |-> rows[k].fantasy_team_id]]

\* identify_keepers, lines 198-210.
identify_keepers(map) ==
  [team \in TeamIds |-> SelectSeq(map, LAMBDA k : k.team_id = team)]

\* generate_insert_sql, lines 228-245: the VALUES rows.
RECURSIVE InsertValues(_, _)
InsertValues(by_team, team) ==
  IF team > 10 THEN <<>>
  ELSE [k \in 1..Len(by_team[team]) |-> [team_id |-> by_team[team][k].team_id,
                                         player_id |-> by_team[team][k].player_id]]
         \o InsertValues(by_team, team + 1)

InitReconstruct ==
  /\ RestIdleTools
  /\ t_pc = "connect"
  /\ t_csv \in SeqsUpTo(ToolRowKinds, MaxToolRows)
  /\ t_nfl_players = ToolPlayers
  /\ t_ftp \in SUBSET FtpRowKinds
  /\ draft_picks = {}
  /\ ToolLocalsEmpty

\* main, lines 319-322.
rk_connect_to_database ==
  /\ t_pc = "connect"
  /\ \E ok \in BOOLEAN :
       t_pc' = IF ok THEN "get_keepers" ELSE "done"
  /\ UNCHANGED <<toolInputs, drafted, espn_mapping, week1_by_team, current_keepers, keepers_by_team,
                 keeper_map, t_team_id, missing_by_team, total_missing, sql_values>>
  /\ UNCHANGED notToolVars

\* main, lines 325-330: get_keeper_players, which returns ({}, {}) on a
\* database error.
rk_get_keeper_players ==
  /\ t_pc = "get_keepers"
  /\ \E db_ok \in BOOLEAN :
       /\ keeper_map' = IF db_ok THEN KeeperMap(KeeperQuery(t_ftp)) ELSE <<>>
       /\ t_pc' = IF keeper_map' # <<>> THEN "identify" ELSE "close"
  /\ UNCHANGED <<toolInputs, drafted, espn_mapping, week1_by_team, current_keepers, keepers_by_team,
                 t_team_id, missing_by_team, total_missing, sql_values>>
  /\ UNCHANGED notToolVars

\* main, lines 332-334.
rk_identify_keepers ==
  /\ t_pc = "identify"
  /\ keepers_by_team' = identify_keepers(keeper_map)
  /\ t_pc' = "generate_sql"
  /\ UNCHANGED <<toolInputs, drafted, espn_mapping, week1_by_team, current_keepers,
                 keeper_map, t_team_id, missing_by_team, total_missing, sql_values>>
  /\ UNCHANGED notToolVars

\* main, lines 336-352: generate_insert_sql, which returns False when the
\* file cannot be written, and generate_detailed_report.
rk_generate_insert_sql ==
  /\ t_pc = "generate_sql"
  /\ \E written \in BOOLEAN :
       sql_values' = IF written THEN InsertValues(keepers_by_team, 1) ELSE <<>>
  /\ t_pc' = "close"
  /\ UNCHANGED <<toolInputs, drafted, espn_mapping, week1_by_team, current_keepers,
                 keepers_by_team, keeper_map, t_team_id, missing_by_team, total_missing>>
  /\ UNCHANGED notToolVars

\* main, lines 354-356.
rk_close ==
  /\ t_pc = "close"
  /\ t_pc' = "done"
  /\ UNCHANGED <<toolInputs, drafted, espn_mapping, week1_by_team, current_keepers,
                 keepers_by_team, keeper_map, t_team_id, missing_by_team, total_missing, sql_values>>
  /\ UNCHANGED notToolVars

NextReconstruct ==
  \/ rk_connect_to_database
  \/ rk_get_keeper_players
  \/ rk_identify_keepers
  \/ rk_generate_insert_sql
  \/ rk_close

SpecReconstruct ==
  InitReconstruct /\ [][NextReconstruct]_vars

\* C6: the keepers reconstruct_original_keepers.py writes to the INSERT
\* script are the Week 1 primary-game lineup players of lineups.csv, matched
\* to player_id by ESPN ID, minus the drafted players (acquisition_type =
\* 'Draft').
C6_WrittenAreWeek1MinusDrafted ==
  (t_pc = "done" /\ sql_values # <<>>) =>
    {sql_values[k] : k \in 1..Len(sql_values)} =
      {[team_id |-> team, player_id |-> r.player_id] :
         <<team, r>> \in {<<team, r>> \in (1..10) \X t_nfl_players :
                            /\ \E i \in Week1Rows(team) : r \in RowPlayers(t_csv[i])
                            /\ ~\E d \in t_ftp : d.player_id = r.player_id /\ d.acquisition_type = "Draft"}}

(***************************************************************************)
(* scripts/find_missing_keepers.py                                         *)
(***************************************************************************)
EXPECTED_COUNTS ==
  [team \in TeamIds |->
     CASE team = 1 -> 12 [] team = 2 -> 11 [] team = 3 -> 12 [] team = 4 -> 12
       [] team = 5 -> 13 [] team = 6 -> 12 [] team = 7 -> 13 [] team = 8 -> 12
       [] team = 9 -> 12 [] team = 10 -> 11]

\* get_current_keepers, lines 35-49.
CurrentKeepers(ftp) ==
  [team \in TeamIds |->
     LET rows == ByPlayerId({r \in ftp : r.fantasy_team_id = team /\ r.early})
     IN  [k \in 1..Len(rows) |-> [player_id |-> rows[k].player_id]]]

\* get_drafted_players, lines 56-65: the keys of the dict.
DraftedPlayers(ftp) ==
  {r.player_id : r \in {x \in ftp : x.acquisition_type = "Draft"}}

\* parse_week1_csv, lines 91-93: the row adds a player.
Week1RowListed(row, mapping) ==
  /\ row.Week = T_1
  /\ row.GameType = T_primary
  /\ strip(row.EspnID) # <<>>
  /\ InMapping(mapping, strip(row.EspnID))

\* parse_week1_csv, lines 90-95: the dict after rows i..Len(csv).
RECURSIVE ParseWeek1Csv(_, _, _, _)
ParseWeek1Csv(csv, i, by_team, mapping) ==
  IF i > Len(csv) THEN by_team
  ELSE IF Week1RowListed(csv[i], mapping)
       THEN ParseWeek1Csv(csv, i + 1,
                          [by_team EXCEPT ![ToInt(csv[i].TeamID)] =
                             Append(@, Lookup(mapping, strip(csv[i].EspnID)))],
                          mapping)
       ELSE ParseWeek1Csv(csv, i + 1, by_team, mapping)

\* main, lines 136-141.
PotentialMissing(week1, current, drafted_players) ==
  SelectSeq(week1, LAMBDA p : /\ p.player_id \notin {current[k].player_id : k \in 1..Len(current)}
                              /\ p.player_id \notin drafted_players)

\* A slice that keeps every candidate.
TakeFirst_All(seq, n) ==
  seq

\* main, line 150: potential_missing[:missing_count], missing_count > 0.
TakeFirst(seq, n) ==
  SubSeq(seq, 1, IF n < Len(seq) THEN n ELSE Len(seq))

\* main, lines 168-171: all_missing.
RECURSIVE AllMissing(_)
AllMissing(by_team) ==
  IF by_team = <<>> THEN <<>>
  ELSE [k \in 1..Len(Head(by_team).players) |->
          [team_id |-> Head(by_team).team_id, player_id |-> Head(by_team).players[k].player_id]]
         \o AllMissing(Tail(by_team))

InitMissing ==
  /\ RestIdleTools
  /\ t_pc = "get_current"
  /\ t_csv \in SeqsUpTo(ToolRowKinds, MaxMissingRows)
  /\ t_nfl_players = ToolPlayers
  /\ \E n1 \in (EXPECTED_COUNTS[1] - MaxMissing)..(EXPECTED_COUNTS[1] + 1), rows \in SUBSET FtpRowKinds :
       t_ftp = Fillers(1, n1) \cup Fillers(2, EXPECTED_COUNTS[2] - 1) \cup rows
  /\ draft_picks = {}
  /\ ToolLocalsEmpty

\* main, line 107.
mk_get_current_keepers ==
  /\ t_pc = "get_current"
  /\ current_keepers' = CurrentKeepers(t_ftp)
  /\ t_pc' = "get_drafted"
  /\ UNCHANGED <<toolInputs, drafted, espn_mapping, week1_by_team, keepers_by_team,
                 keeper_map, t_team_id, missing_by_team, total_missing, sql_values>>
  /\ UNCHANGED notToolVars

\* main, line 108.
mk_get_drafted_players ==
  /\ t_pc = "get_drafted"
  /\ drafted' = DraftedPlayers(t_ftp)
  /\ t_pc' = "get_mapping"
  /\ UNCHANGED <<toolInputs, espn_mapping, week1_by_team, current_keepers, keepers_by_team,
                 keeper_map, t_team_id, missing_by_team, total_missing, sql_values>>
  /\ UNCHANGED notToolVars

\* main, line 109.
mk_get_espn_mapping ==
  /\ t_pc = "get_mapping"
  /\ espn_mapping' = EspnMapping(t_nfl_players)
  /\ t_pc' = "parse"
  /\ UNCHANGED <<toolInputs, drafted, week1_by_team, current_keepers, keepers_by_team,
                 keeper_map, t_team_id, missing_by_team, total_missing, sql_values>>
  /\ UNCHANGED notToolVars

\* main, lines 110-121.
mk_parse_week1_csv ==
  /\ t_pc = "parse"
  /\ week1_by_team' = ParseWeek1Csv(t_csv, 1, EmptyByTeam, espn_mapping)
  /\ t_team_id' = 1
  /\ t_pc' = "teams"
  /\ UNCHANGED <<toolInputs, drafted, espn_mapping, current_keepers, keepers_by_team,
                 keeper_map, missing_by_team, total_missing, sql_values>>
  /\ UNCHANGED notToolVars

\* main, lines 123-151: one pass of the loop over range(1, 11).
mk_team ==
  /\ t_pc = "teams"
  /\ t_team_id <= 10
  /\ LET expected == EXPECTED_COUNTS[t_team_id]
         current_count == Len(current_keepers[t_team_id])
         missing_count == expected - current_count
         potential_missing == PotentialMissing(week1_by_team[t_team_id], current_keepers[t_team_id], drafted)
     IN  IF missing_count > 0 /\ potential_missing # <<>>
         THEN /\ missing_by_team' = Append(missing_by_team,
                                           [team_id |-> t_team_id,
                                            players |-> TakeFirst(potential_missing, missing_count)])
              /\ total_missing' = total_missing + Len(TakeFirst(potential_missing, missing_count))
         ELSE UNCHANGED <<missing_by_team, total_missing>>
  /\ t_team_id' = t_team_id + 1
  /\ UNCHANGED <<toolInputs, t_pc, drafted, espn_mapping, week1_by_team, current_keepers,
                 keepers_by_team, keeper_map, sql_values>>
  /\ UNCHANGED notToolVars

\* main, lines 153-191: the SQL file is written when total_missing > 0; the
\* database is only read.
mk_generate_inserts ==
  /\ t_pc = "teams"
  /\ t_team_id > 10
  /\ sql_values' = IF total_missing > 0 THEN AllMissing(missing_by_team) ELSE <<>>
  /\ t_pc' = "done"
  /\ UNCHANGED <<toolInputs, drafted, espn_mapping, week1_by_team, current_keepers,
                 keepers_by_team, keeper_map, t_team_id, missing_by_team, total_missing>>
  /\ UNCHANGED notToolVars

NextMissing ==
  \/ mk_get_current_keepers
  \/ mk_get_drafted_players
  \/ mk_get_espn_mapping
  \/ mk_parse_week1_csv
  \/ mk_team
  \/ mk_generate_inserts

SpecMissing ==
  InitMissing /\ [][NextMissing]_vars

\* The rows of fantasy_team_players of a team acquired before 2025-08-31.
EarlyRows(team) ==
  {r \in t_ftp : r.fantasy_team_id = team /\ r.early}

RECURSIVE SumPlayers(_)
SumPlayers(by_team) ==
  IF by_team = <<>> THEN 0 ELSE Len(Head(by_team).players) + SumPlayers(Tail(by_team))

\* C7: every candidate emitted for a team is a player of the team's Week 1
\* primary lineup who is neither drafted nor one of the team's current
\* keepers; a team gets at most EXPECTED_COUNTS[team] minus its current
\* keeper count candidates, so none when it is at or above its expected
\* count; and the SQL file holds total_missing VALUES rows.
C7_CandidatesBounded ==
  /\ \A e \in 1..Len(missing_by_team) :
       LET team == missing_by_team[e].team_id
           players == missing_by_team[e].players
       IN  /\ team \in 1..10
           /\ \A k \in 1..Len(players) :
                /\ \E i \in Week1Rows(team) : \E r \in RowPlayers(t_csv[i]) :
                     r.player_id = players[k].player_id
                /\ ~\E d \in t_ftp : d.player_id = players[k].player_id /\ d.acquisition_type = "Draft"
                /\ ~\E c \in EarlyRows(team) : c.player_id = players[k].player_id
           /\ Len(players) <= EXPECTED_COUNTS[team] - Cardinality(EarlyRows(team))
           /\ Len(players) > 0
           /\ \A f \in 1..Len(missing_by_team) : missing_by_team[f].team_id = team => f = e
  /\ total_missing = SumPlayers(missing_by_team)
  /\ t_pc = "done" => Len(sql_values) = total_missing

\* A run in which a team one keeper short of its expected count had two
\* candidates and got one, and the file was written.
C7_Witness ==
  /\ t_pc = "done"
  /\ sql_values # <<>>
  /\ \E e \in 1..Len(missing_by_team) :
       LET team == missing_by_team[e].team_id
       IN  /\ Len(missing_by_team[e].players) = 1
           /\ Cardinality(EarlyRows(team)) = EXPECTED_COUNTS[team] - 1
           /\ Len(PotentialMissing(week1_by_team[team], current_keepers[team], drafted)) = 2

(***************************************************************************)
(* scripts/import_player_stats.py: fumble attribution                      *)
(*                                                                         *)
(* A missing value of a DataFrame cell is None or NaN, as the parquet      *)
(* engine and the pandas version decide; pd.isna holds of both.  All the   *)
(* rows are of one season.                                                 *)
(***************************************************************************)
NoneValue == "None"
NaN == "nan"

isna(v) ==
  v \in {NoneValue, NaN}

notna(v) ==
  ~isna(v)

\* a == b: NaN equals nothing, itself included.
PyEq(a, b) ==
  a # NaN /\ b # NaN /\ a = b

\* a or b: None is falsy; NaN and a team code are truthy.
PyOr(a, b) ==
  IF a = NoneValue THEN b ELSE a

\* needle in hay
Contains(hay, needle) ==
  \E i \in 1..(Len(hay) - Len(needle) + 1) : SubSeq(hay, i, i + Len(needle) - 1) = needle

T_lateral == <<"l", "a", "t", "e", "r", "a", "l">>
T_fumbles == <<"f", "u", "m", "b", "l", "e", "s">>
T_recovers == <<"r", "e", "c", "o", "v", "e", "r", "s">>
T_fumbles_aborted == <<"f", "u", "m", "b", "l", "e", "s", " ", "(", "a", "b", "o", "r", "t", "e", "d", ")">>
T_touchback == <<"t", "o", "u", "c", "h", "b", "a", "c", "k">>

\* Play descriptions, written as nflverse writes them.
Descs ==
  {a \o b \o c \o d :
     a \in {<<>>, <<"F", "U", "M", "B", "L", "E", "S">>, <<"F", "U", "M", "B", "L", "E", "S", " ", "(", "A", "b", "o", "r", "t", "e", "d", ")">>},
     b \in {<<>>, <<",", " ", "R", "E", "C", "O", "V", "E", "R", "E", "D">>, <<",", " ", "a", "n", "d", " ", "r", "e", "c", "o", "v", "e", "r", "s">>},
     c \in {<<>>, <<".", " ", "L", "a", "t", "e", "r", "a", "l">>},
     d \in {<<>>, <<".", " ", "T", "o", "u", "c", "h", "b", "a", "c", "k">>}}

Play(desc, f1, f2, rec1_team, rec1_player, rec2_team, lost, returner) ==
  [desc |-> desc, week |-> 1, posteam |-> "KC", defteam |-> "SF",
   fumbled_1_player_id |-> f1, fumbled_2_player_id |-> f2,
   fumble_recovery_1_team |-> rec1_team, fumble_recovery_1_player_id |-> rec1_player,
   fumble_recovery_2_team |-> rec2_team, fumble_lost |-> lost,
   punt_returner_player_id |-> IF returner = "punt" THEN "p1" ELSE NoneValue,
   kickoff_returner_player_id |-> IF returner = "kickoff" THEN "p1" ELSE NoneValue,
   interception_player_id |-> IF returner = "interception" THEN "p1" ELSE NoneValue]

\* The recovery columns of a play: a second recovery, or a first recoverer,
\* only with a first recovery team.
Recoveries ==
  {<<rec1_team, rec1_player, rec2_team>> \in
     {NoneValue, "KC", "SF"} \X {NoneValue, "p1", "p2"} \X {NoneValue, NaN, "KC", "SF"} :
       isna(rec1_team) => (isna(rec1_player) /\ isna(rec2_team))}

FumblePlays ==
  {Play(desc, f1, f2, rec[1], rec[2], rec[3], lost, returner) :
     desc \in Descs, f1 \in {NoneValue, "p1"}, f2 \in {NoneValue, "p1", "p2"},
     rec \in Recoveries, lost \in {0, 1},
     returner \in {"none", "punt", "kickoff", "interception"}}

\* A row of player_stats.  lost holds rushing_fumbles_lost,
\* receiving_fumbles_lost and sack_fumbles_lost, each Null (NaN) or Some(n).
StatRow(player, name, week, team, yards, lost) ==
  [player_id |-> player, player_display_name |-> name, week |-> week,
   recent_team |-> team, passing_yards |-> yards,
   rushing_fumbles_lost |-> lost[1], receiving_fumbles_lost |-> lost[2],
   sack_fumbles_lost |-> lost[3]]

NoFumbleColumns ==
  <<Null, Null, Null>>

\* player_stats of the fumblers of the play.
FumblerStats ==
  { <<>>,
    <<StatRow("p1", "P. One", 1, "KC", 5, NoFumbleColumns)>>,
    <<StatRow("p1", "P. One", 1, "SF", 5, NoFumbleColumns)>>,
    <<StatRow("p1", "P. One", 1, "KC", 5, NoFumbleColumns),
      StatRow("p2", "P. Two", 1, "SF", 5, NoFumbleColumns)>> }

\* calculate_fumble_lost_attribution, lines 98-157.
calculate_fumble_lost_attribution_PlayLevel(play, player_id, team, fumbler_number) ==
  play.fumble_lost

calculate_fumble_lost_attribution(play, player_id, team, fumbler_number) ==
  LET desc == lower(play.desc)
      rec1 == play.fumble_recovery_1_team
      rec2 == play.fumble_recovery_2_team
  IN  IF fumbler_number = 1
      THEN IF isna(rec1) THEN play.fumble_lost
           ELSE IF /\ Contains(desc, T_lateral)
                   /\ notna(play.fumbled_2_player_id)
                   /\ PyEq(rec1, team)
                   /\ PyEq(rec2, team)
                   /\ play.fumble_lost = 1
                THEN play.fumble_lost
           ELSE IF /\ \/ (Contains(desc, T_fumbles) /\ Contains(desc, T_recovers) /\ Contains(desc, T_fumbles))
                      \/ (Contains(desc, T_fumbles_aborted) /\ Contains(desc, T_recovers) /\ Contains(desc, T_fumbles))
                   /\ isna(play.fumbled_2_player_id)
                THEN IF PyEq(PyOr(rec2, rec1), team) THEN 0 ELSE 1
           ELSE IF notna(play.fumbled_2_player_id)
                THEN IF PyEq(rec1, team) THEN 0 ELSE 1
           ELSE IF notna(rec2)
                THEN IF PyEq(rec2, team) THEN 0 ELSE 1
           ELSE IF PyEq(rec1, team) THEN 0 ELSE 1
      ELSE IF /\ Contains(desc, T_lateral)
              /\ PyEq(rec1, team)
              /\ PyEq(rec2, team)
              /\ play.fumble_lost = 1
           THEN play.fumble_lost
           ELSE IF /\ isna(rec2)
                   /\ PyEq(player_id, play.fumble_recovery_1_player_id)
                   /\ ~PyEq(play.fumbled_1_player_id, play.fumbled_2_player_id)
                THEN IF Contains(desc, T_touchback) THEN 1 ELSE 0
           ELSE IF isna(rec2) THEN play.fumble_lost
           ELSE IF PyEq(rec2, team) THEN 0 ELSE 1

\* calculate_sophisticated_fumbles, lines 194-199: player_stats_lookup after
\* rows i..Len(rows); a later row of a key replaces the earlier one.
RECURSIVE BuildLookup(_, _, _)
BuildLookup(rows, i, lookup) ==
  IF i > Len(rows) THEN lookup
  ELSE IF notna(rows[i].player_id)
       THEN BuildLookup(rows, i + 1,
                        {e \in lookup : ~(e.player_id = rows[i].player_id /\ e.week = rows[i].week)}
                          \cup {[player_id |-> rows[i].player_id, week |-> rows[i].week,
                                 recent_team |-> rows[i].recent_team]})
       ELSE BuildLookup(rows, i + 1, lookup)

\* get_player_team, lines 174-192.
get_player_team(row, player_id, lookup) ==
  IF isna(player_id) THEN NoneValue
  ELSE IF PyEq(player_id, row.punt_returner_player_id) THEN row.defteam
  ELSE IF PyEq(player_id, row.kickoff_returner_player_id) THEN row.posteam
  ELSE IF PyEq(player_id, row.interception_player_id) THEN row.defteam
  ELSE IF \E e \in lookup : e.player_id = player_id /\ e.week = row.week
       THEN (CHOOSE e \in lookup : e.player_id = player_id /\ e.week = row.week).recent_team
       ELSE row.posteam

\* calculate_sophisticated_fumbles, lines 224-228: the team of fumbler 2.
SecondFumblerTeam(play, lookup) ==
  IF PyEq(play.fumbled_2_player_id, play.fumble_recovery_1_player_id)
  THEN play.fumble_recovery_1_team
  ELSE get_player_team(play, play.fumbled_2_player_id, lookup)

FumbleResult(play, player_id, team, fumbler_number) ==
  [player_id |-> player_id, week |-> play.week, team |-> team,
   fumbles_lost |-> calculate_fumble_lost_attribution(play, player_id, team, fumbler_number)]

RECURSIVE SumLost(_, _)
SumLost(results, key) ==
  IF results = <<>> THEN 0
  ELSE (IF <<Head(results).player_id, Head(results).week, Head(results).team>> = key
        THEN Head(results).fumbles_lost ELSE 0) + SumLost(Tail(results), key)

\* calculate_sophisticated_fumbles, lines 242-250: groupby(...).sum(), which
\* drops the groups with a missing key.
FumbleSummary(results) ==
  {[player_id |-> key[1], week |-> key[2], team |-> key[3], fumbles_lost |-> SumLost(results, key)] :
     key \in {<<results[k].player_id, results[k].week, results[k].team>> :
                k \in {j \in 1..Len(results) : notna(results[j].team)}}}

InitFumble ==
  /\ RestIdleStats
  /\ s_pc = "fumbles"
  /\ player_stats \in FumblerStats
  /\ schedule = <<>>
  /\ \E play \in FumblePlays : fumble_plays = <<play>>
  /\ stats_columns = {}
  /\ StatsLocalsEmpty

\* calculate_sophisticated_fumbles, lines 166-201.
f_build_lookup ==
  /\ s_pc = "fumbles"
  /\ player_stats_lookup' = BuildLookup(player_stats, 1, {})
  /\ f_i' = 1
  /\ s_pc' = IF fumble_plays = <<>> THEN "aggregate" ELSE "fumbler_1"
  /\ UNCHANGED <<statsInputs, fumble_results, fumble_data, merged_data, final_data>>
  /\ UNCHANGED notStatsVars

\* calculate_sophisticated_fumbles, lines 204-219.
f_fumbler_1 ==
  /\ s_pc = "fumbler_1"
  /\ LET play == fumble_plays[f_i]
         player_id == play.fumbled_1_player_id
         team == get_player_team(play, player_id, player_stats_lookup)
     IN  fumble_results' = IF notna(player_id)
                           THEN Append(fumble_results, FumbleResult(play, player_id, team, 1))
                           ELSE fumble_results
  /\ s_pc' = "fumbler_2"
  /\ UNCHANGED <<statsInputs, f_i, player_stats_lookup, fumble_data, merged_data, final_data>>
  /\ UNCHANGED notStatsVars

\* calculate_sophisticated_fumbles, lines 221-240.
f_fumbler_2 ==
  /\ s_pc = "fumbler_2"
  /\ LET play == fumble_plays[f_i]
         player_id == play.fumbled_2_player_id
         team == SecondFumblerTeam(play, player_stats_lookup)
     IN  fumble_results' = IF notna(player_id)
                           THEN Append(fumble_results, FumbleResult(play, player_id, team, 2))
                           ELSE fumble_results
  /\ f_i' = f_i + 1
  /\ s_pc' = IF f_i + 1 > Len(fumble_plays) THEN "aggregate" ELSE "fumbler_1"
  /\ UNCHANGED <<statsInputs, player_stats_lookup, fumble_data, merged_data, final_data>>
  /\ UNCHANGED notStatsVars

\* calculate_sophisticated_fumbles, lines 242-252.
f_aggregate ==
  /\ s_pc = "aggregate"
  /\ fumble_data' = FumbleSummary(fumble_results)
  /\ s_pc' = "merge_schedule"
  /\ UNCHANGED <<statsInputs, f_i, player_stats_lookup, fumble_results, merged_data, final_data>>
  /\ UNCHANGED notStatsVars

NextFumble ==
  \/ f_build_lookup
  \/ f_fumbler_1
  \/ f_fumbler_2
  \/ f_aggregate

SpecFumble ==
  InitFumble /\ [][NextFumble]_vars

\* The play of a run over one fumble play, and what the loop appended for
\* its fumblers.
ThePlay ==
  fumble_plays[1]

FirstFumblerDone ==
  Len(fumble_plays) = 1 /\ notna(ThePlay.fumbled_1_player_id) /\ fumble_results # <<>>

FirstResult ==
  fumble_results[1]

SecondFumblerDone ==
  Len(fumble_plays) = 1 /\ notna(ThePlay.fumbled_2_player_id) /\ f_i = 2

SecondResult ==
  fumble_results[Len(fumble_results)]

\* A recovery team is recorded and is the team.
RecoveredBy(rec_team, team) ==
  notna(rec_team) /\ rec_team = team

\* C8: for fumbler 1, with no first-recovery team recorded the result is the
\* play-level fumble_lost; otherwise, with no second fumbler, the result is 0
\* exactly when the last recorded recovery team (the second if recorded, else
\* the first) is the fumbler's team, and 1 otherwise, whatever the
\* description.
C8_FirstFumblerByLastRecovery ==
  FirstFumblerDone =>
    LET rec1 == ThePlay.fumble_recovery_1_team
        rec2 == ThePlay.fumble_recovery_2_team
        last == IF notna(rec2) THEN rec2 ELSE rec1
    IN  /\ isna(rec1) => FirstResult.fumbles_lost = ThePlay.fumble_lost
        /\ (notna(rec1) /\ isna(ThePlay.fumbled_2_player_id)) =>
             FirstResult.fumbles_lost = IF last = FirstResult.team THEN 0 ELSE 1

\* The exception of C9: the description contains 'lateral', both recoveries
\* are by the fumbler's team and the play-level fumble_lost is 1.
LateralException(team) ==
  /\ Contains(lower(ThePlay.desc), T_lateral)
  /\ RecoveredBy(ThePlay.fumble_recovery_1_team, team)
  /\ RecoveredBy(ThePlay.fumble_recovery_2_team, team)
  /\ ThePlay.fumble_lost = 1

\* What C9 says of fumbler 2.
SecondFumblerCharged ==
  SecondFumblerDone =>
    LET team == SecondResult.team
        rec2 == ThePlay.fumble_recovery_2_team
    IN  SecondResult.fumbles_lost =
          IF LateralException(team) THEN 1
          ELSE IF notna(rec2) THEN (IF rec2 = team THEN 0 ELSE 1)
          ELSE IF /\ ThePlay.fumbled_2_player_id = ThePlay.fumble_recovery_1_player_id
                  /\ ThePlay.fumbled_2_player_id # ThePlay.fumbled_1_player_id
               THEN (IF Contains(lower(ThePlay.desc), T_touchback) THEN 1 ELSE 0)
          ELSE ThePlay.fumble_lost

TwoFumblers ==
  notna(ThePlay.fumbled_1_player_id) /\ notna(ThePlay.fumbled_2_player_id)

\* C9 (as stated): on a play with two fumblers, fumbler 1 gets 0 iff the
\* first recovery team is their team; fumbler 2 gets 0 iff the second
\* recovery team is their team when a second recovery is recorded, otherwise
\* the play-level fumble_lost, or 1 iff 'touchback' when fumbler 2 is the
\* first recoverer and differs from fumbler 1; but a fumbler is charged 1 in
\* the lateral exception; and every result is 0 or 1.
C9_Original ==
  (Len(fumble_plays) = 1 /\ TwoFumblers) =>
    /\ FirstFumblerDone =>
         FirstResult.fumbles_lost =
           IF LateralException(FirstResult.team) THEN 1
           ELSE IF RecoveredBy(ThePlay.fumble_recovery_1_team, FirstResult.team) THEN 0 ELSE 1
    /\ SecondFumblerCharged
    /\ \A k \in 1..Len(fumble_results) : fumble_results[k].fumbles_lost \in {0, 1}

\* C9 (amended): as stated, except that fumbler 1 gets the play-level
\* fumble_lost when no first recovery team is recorded.
C9_EachFumblerByOwnRecovery ==
  (Len(fumble_plays) = 1 /\ TwoFumblers) =>
    /\ FirstFumblerDone =>
         FirstResult.fumbles_lost =
           IF LateralException(FirstResult.team) THEN 1
           ELSE IF isna(ThePlay.fumble_recovery_1_team) THEN ThePlay.fumble_lost
           ELSE IF ThePlay.fumble_recovery_1_team = FirstResult.team THEN 0 ELSE 1
    /\ SecondFumblerCharged
    /\ \A k \in 1..Len(fumble_results) : fumble_results[k].fumbles_lost \in {0, 1}

\* A play on which fumbler 1's fumble was recovered by the other team, whose
\* recoverer fumbled in turn with no second recovery recorded, on a
\* touchback: fumbler 1 is charged, and so is fumbler 2.
C9_Witness ==
  /\ Len(fumble_plays) = 1
  /\ TwoFumblers
  /\ SecondFumblerDone
  /\ ThePlay.fumbled_2_player_id = ThePlay.fumble_recovery_1_player_id
  /\ ThePlay.fumbled_2_player_id # ThePlay.fumbled_1_player_id
  /\ isna(ThePlay.fumble_recovery_2_team)
  /\ Contains(lower(ThePlay.desc), T_touchback)
  /\ ThePlay.fumble_recovery_1_team # FirstResult.team
  /\ ThePlay.fumble_lost = 0
  /\ FirstResult.fumbles_lost = 1
  /\ SecondResult.fumbles_lost = 1

(***************************************************************************)
(* scripts/import_player_stats.py: process_data                            *)
(***************************************************************************)
Game(game_id, week, home, away, gameday) ==
  [game_id |-> game_id, week |-> week, gameday |-> gameday,
   home_team |-> home, away_team |-> away, game_type |-> "REG"]

\* Schedules in which a team plays at most one game a week.
ScheduleGames ==
  << Game("2024_01_SF_KC", 1, "KC", "SF", "2024-09-05"),
     Game("2024_01_NYG_DAL", 1, "DAL", "NYG", "2024-09-08"),
     Game("2024_02_KC_SF", 2, "SF", "KC", "2024-09-15") >>

Schedules ==
  {SelectSeq(ScheduleGames, LAMBDA g : g.game_id \in ids) :
     ids \in SUBSET {ScheduleGames[k].game_id : k \in 1..Len(ScheduleGames)}}

StandardFumbles ==
  {NoFumbleColumns, <<Some(0), Some(0), Some(0)>>, <<Some(1), Null, Some(1)>>}

StatRowKinds ==
  {StatRow("p1", name, week, team, yards, lost) :
     name \in {"P. One", NoneValue}, week \in {1, 2}, team \in {"KC", "SF"}, yards \in {0, 5},
     lost \in StandardFumbles}

\* pbp_data with one fumble play of week 1: p1 loses the ball to SF, or p1
\* recovers their own fumble.
SamplePlays ==
  { Play(<<"F", "U", "M", "B", "L", "E", "S">>, "p1", NoneValue, "SF", "p2", NoneValue, 1, "none"),
    Play(<<"F", "U", "M", "B", "L", "E", "S">>, "p1", NoneValue, "KC", "p1", NoneValue, 0, "none"),
    Play(<<"F", "U", "M", "B", "L", "E", "S">>, "p1", "p1", "SF", "p2", "SF", 1, "none") }

\* process_data, lines 262-270: player_stats.merge(schedule_lookup,
\* on=['season', 'week'], how='left'), rows i..Len(stats).
RECURSIVE MergeSchedule(_, _, _)
MergeSchedule(stats, games, i) ==
  IF i > Len(stats) THEN <<>>
  ELSE LET matches == SelectSeq(games, LAMBDA g : g.week = stats[i].week)
           joined(g) == [player_id |-> stats[i].player_id,
                         player_display_name |-> stats[i].player_display_name,
                         week |-> stats[i].week, recent_team |-> stats[i].recent_team,
                         passing_yards |-> stats[i].passing_yards,
                         rushing_fumbles_lost |-> stats[i].rushing_fumbles_lost,
                         receiving_fumbles_lost |-> stats[i].receiving_fumbles_lost,
                         sack_fumbles_lost |-> stats[i].sack_fumbles_lost,
                         game_id |-> g.game_id, gameday |-> g.gameday, home_team |-> g.home_team,
                         away_team |-> g.away_team, game_type |-> g.game_type]
           unmatched == [game_id |-> NaN, week |-> stats[i].week, gameday |-> NaN,
                         home_team |-> NaN, away_team |-> NaN, game_type |-> NaN]
       IN  (IF matches = <<>> THEN <<joined(unmatched)>>
            ELSE [k \in 1..Len(matches) |-> joined(matches[k])])
             \o MergeSchedule(stats, games, i + 1)

\* process_data, lines 273-276: the lambda.
Opponent(row) ==
  IF PyEq(row.recent_team, row.home_team) THEN row.away_team ELSE row.home_team

\* Series.fillna(0) of a cell.
FillNa0(cell) ==
  IF cell = Null THEN 0 ELSE CHOOSE n \in cell : TRUE

\* process_data, lines 288-290 and 295-297: the standard fumble calculation.
StandardFumblesLost(row) ==
  FillNa0(row.rushing_fumbles_lost) + FillNa0(row.receiving_fumbles_lost)
    + FillNa0(row.sack_fumbles_lost)

\* A calculation that never uses the sophisticated value.
FumblesLostFinal_Standard(row, fumbles) ==
  StandardFumblesLost(row)

\* process_data, lines 279-299: fumbles_lost_final of a row.  The left merge
\* finds at most one row of fumble_data, whose keys are unique.
FumblesLostFinal(row, fumbles) ==
  LET hits == {f \in fumbles : /\ PyEq(f.player_id, row.player_id)
                               /\ f.week = row.week
                               /\ PyEq(f.team, row.recent_team)}
  IN  IF hits # {} THEN (CHOOSE f \in hits : TRUE).fumbles_lost
      ELSE StandardFumblesLost(row)

\* process_data, lines 302-369: the columns of the final table.
FinalRecord(row) ==
  [player_name |-> row.player_display_name, week |-> row.week, game_type |-> row.game_type,
   game_date |-> row.gameday, team |-> row.recent_team, opponent |-> row.opponent,
   pass_yards |-> row.passing_yards, fumbles_lost |-> row.fumbles_lost_final]

\* process_data, lines 372-382: meaningful_stats.
MeaningfulStats(rec) ==
  rec.pass_yards > 0 \/ rec.fumbles_lost > 0

\* process_data, line 388: sort_values(['season', 'week', 'player_name']);
\* the records that remain have one season and one player_name, and records
\* of a week keep their order.
RECURSIVE SortByWeek(_)
SortByWeek(recs) ==
  IF recs = <<>> THEN <<>>
  ELSE LET first == CHOOSE w \in {recs[k].week : k \in 1..Len(recs)} :
                      \A k \in 1..Len(recs) : w <= recs[k].week
       IN  SelectSeq(recs, LAMBDA r : r.week = first)
             \o SortByWeek(SelectSeq(recs, LAMBDA r : r.week # first))

\* The weekly data has rows only for the teams that played that week.
TeamPlayed(games, week, team) ==
  \E g \in 1..Len(games) : games[g].week = week /\ team \in {games[g].home_team, games[g].away_team}

InitProcess ==
  /\ RestIdleStats
  /\ s_pc = "fumbles"
  /\ player_stats \in SeqsUpTo(StatRowKinds, MaxStatRows)
  /\ schedule \in Schedules
  /\ \A i \in 1..Len(player_stats) : TeamPlayed(schedule, player_stats[i].week, player_stats[i].recent_team)
  /\ fumble_plays \in {<<>>} \cup {<<play>> : play \in SamplePlays}
  /\ stats_columns \in {{}, {"fumbles_lost"}}
  /\ StatsLocalsEmpty

\* process_data, lines 262-270.
p_merge_schedule ==
  /\ s_pc = "merge_schedule"
  /\ merged_data' = MergeSchedule(player_stats, schedule, 1)
  /\ s_pc' = "opponent"
  /\ UNCHANGED <<statsInputs, f_i, player_stats_lookup, fumble_results, fumble_data, final_data>>
  /\ UNCHANGED notStatsVars

\* process_data, lines 272-276.
p_determine_opponent ==
  /\ s_pc = "opponent"
  /\ merged_data' = [k \in 1..Len(merged_data) |->
                       [c \in DOMAIN merged_data[k] \cup {"opponent"} |->
                          IF c = "opponent" THEN Opponent(merged_data[k]) ELSE merged_data[k][c]]]
  /\ s_pc' = "merge_fumbles"
  /\ UNCHANGED <<statsInputs, f_i, player_stats_lookup, fumble_results, fumble_data, final_data>>
  /\ UNCHANGED notStatsVars

\* process_data, lines 280-286: merge gives the column fumbles_lost of
\* fumble_data the suffix '_sophisticated' only when merged_data has a column
\* fumbles_lost too; otherwise line 288 raises KeyError.
SophisticatedColumnExists(columns) ==
  "fumbles_lost" \in columns

\* process_data, lines 278-299.
p_merge_fumbles ==
  /\ s_pc = "merge_fumbles"
  /\ IF fumble_data # {} /\ ~SophisticatedColumnExists(stats_columns)
     THEN /\ s_pc' = "raised"
          /\ UNCHANGED merged_data
     ELSE /\ merged_data' = [k \in 1..Len(merged_data) |->
                               [c \in DOMAIN merged_data[k] \cup {"fumbles_lost_final"} |->
                                  IF c = "fumbles_lost_final"
                                  THEN FumblesLostFinal(merged_data[k], fumble_data)
                                  ELSE merged_data[k][c]]]
          /\ s_pc' = "finalize"
  /\ UNCHANGED <<statsInputs, f_i, player_stats_lookup, fumble_results, fumble_data, final_data>>
  /\ UNCHANGED notStatsVars

\* process_data, lines 301-394.
p_finalize ==
  /\ s_pc = "finalize"
  /\ LET records == [k \in 1..Len(merged_data) |-> FinalRecord(merged_data[k])]
         meaningful == SelectSeq(records, MeaningfulStats)
         complete == SelectSeq(meaningful, LAMBDA r : notna(r.player_name) /\ notna(r.game_date))
     IN  final_data' = SortByWeek(complete)
  /\ s_pc' = "done"
  /\ UNCHANGED <<statsInputs, f_i, player_stats_lookup, fumble_results, fumble_data, merged_data>>
  /\ UNCHANGED notStatsVars

NextProcess ==
  \/ f_build_lookup
  \/ f_fumbler_1
  \/ f_fumbler_2
  \/ f_aggregate
  \/ p_merge_schedule
  \/ p_determine_opponent
  \/ p_merge_fumbles
  \/ p_finalize

SpecProcess ==
  InitProcess /\ [][NextProcess]_vars

\* C10: for every output record of process_data the opponent is the other
\* team of the game the record's team played in that season and week: the
\* away team when the record's team is the home team, the home team when it
\* is the away team.
C10_OpponentOfOwnGame ==
  \A k \in 1..Len(final_data) :
    \E g \in 1..Len(schedule) :
      /\ schedule[g].week = final_data[k].week
      /\ \/ /\ schedule[g].home_team = final_data[k].team
            /\ final_data[k].opponent = schedule[g].away_team
         \/ /\ schedule[g].away_team = final_data[k].team
            /\ final_data[k].opponent = schedule[g].home_team

\* The attributions calculate_sophisticated_fumbles made for a row's player,
\* week and team.
AttributionsOf(row) ==
  SelectSeq(fumble_results, LAMBDA a : /\ a.player_id = row.player_id
                                       /\ a.week = row.week
                                       /\ a.team = row.recent_team)

RECURSIVE TotalLost(_)
TotalLost(attributions) ==
  IF attributions = <<>> THEN 0
  ELSE Head(attributions).fumbles_lost + TotalLost(Tail(attributions))

\* C11: the fumbles_lost of an output record of process_data is the sum of
\* the attributions of all the fumbles of its player in its week for its
\* team when calculate_sophisticated_fumbles made one, and otherwise
\* rushing_fumbles_lost + receiving_fumbles_lost + sack_fumbles_lost with
\* missing values counted as 0.
C11_FumblesLostOfRecord ==
  /\ s_pc \in {"finalize", "done"} =>
       \A k \in 1..Len(merged_data) :
         merged_data[k].fumbles_lost_final =
           IF AttributionsOf(merged_data[k]) # <<>>
           THEN TotalLost(AttributionsOf(merged_data[k]))
           ELSE LET rushing == merged_data[k].rushing_fumbles_lost
                    receiving == merged_data[k].receiving_fumbles_lost
                    sack == merged_data[k].sack_fumbles_lost
                IN  (IF rushing = Null THEN 0 ELSE CHOOSE n \in rushing : TRUE)
                      + (IF receiving = Null THEN 0 ELSE CHOOSE n \in receiving : TRUE)
                      + (IF sack = Null THEN 0 ELSE CHOOSE n \in sack : TRUE)
  /\ s_pc = "done" =>
       \A r \in 1..Len(final_data) :
         \E k \in 1..Len(merged_data) :
           /\ final_data[r].fumbles_lost = merged_data[k].fumbles_lost_final
           /\ final_data[r].player_name = merged_data[k].player_display_name
           /\ final_data[r].week = merged_data[k].week
           /\ final_data[r].team = merged_data[k].recent_team
           /\ final_data[r].game_date = merged_data[k].gameday
           /\ final_data[r].pass_yards = merged_data[k].passing_yards

\* A run whose output has a record with two attributed fumbles, against
\* standard columns that say otherwise.
C11_Witness ==
  /\ s_pc = "done"
  /\ \E r \in 1..Len(final_data) : \E k \in 1..Len(merged_data) :
       /\ final_data[r] = FinalRecord(merged_data[k])
       /\ Len(AttributionsOf(merged_data[k])) = 2
       /\ final_data[r].fumbles_lost = 2
       /\ merged_data[k].rushing_fumbles_lost = Some(0)

(***************************************************************************)
(* scripts/import_player_stats.py: main, get_db_config, import_to_database *)
(***************************************************************************)
T_Y == <<"Y">>
T_n == <<"n">>
T_2023 == <<"2", "0", "2", "3">>
T_2024 == <<"2", "0", "2", "4">>
T_2025 == <<"2", "0", "2", "5">>

batch_size == 2000

DbNames ==
  {"DB_HOST", "DB_PORT", "DB_NAME", "DB_USER", "DB_PASSWORD"}

\* get_db_config, lines 28-32: the variables in the order they are read.
DbOrder ==
  <<"DB_HOST", "DB_PORT", "DB_NAME", "DB_USER", "DB_PASSWORD">>

AutomatedEnv ==
  {"AUTOMATED_RUN", "START_SEASON", "END_SEASON"} \cup DbNames

EnvChoices ==
  {S \cup D : S \in SUBSET {"AUTOMATED_RUN", "START_SEASON", "END_SEASON"},
              D \in {DbNames, {}, DbNames \ {"DB_PASSWORD"}}}

\* The values of START_SEASON and END_SEASON when they are set.
EnvValue(name) ==
  IF name = "START_SEASON" THEN T_2023 ELSE T_2024

\* main, lines 512-513: int(os.getenv(name, input(...) or default)); the
\* default argument, and with it input(), is evaluated before getenv looks.
SeasonOf(env, name, answer, default) ==
  IF name \in env THEN ToInt(EnvValue(name))
  ELSE IF answer = <<>> THEN default ELSE ToInt(answer)

\* main, lines 522-525: the answer lets the import go on.
Proceeds(answer) ==
  lower(answer) = T_y

\* get_db_config, lines 28-32: `os.getenv(name) or input(...)` prompts for
\* the variables that are not set.
DbPrompts(env) ==
  SelectSeq(DbOrder, LAMBDA name : name \notin env)

\* len(processed_data), around the batch boundaries.
DataLengths ==
  {0, 1, batch_size - 1, batch_size, batch_size + 1, 2 * batch_size, 2 * batch_size + 1}

\* import_to_database, line 440: data.iloc[i:i + batch_size], as the
\* positions [from, to) of the slice.
Batch(i, n) ==
  [from |-> i, to |-> IF i + batch_size < n THEN i + batch_size ELSE n]

\* A return value that reports success whatever happened.
ImportReturn_True(successful, n) ==
  TRUE

\* import_to_database, line 462.
ImportReturn(successful, n) ==
  successful = n

InitStatsMain ==
  /\ RestIdleMain
  /\ m_pc = "start_season"
  /\ m_env \in EnvChoices
  /\ m_stdin \in BOOLEAN
  /\ m_answers \in [start : {<<>>, T_2025}, end : {<<>>, T_2023},
                    proceed : {T_y, T_Y, T_n, T_yes, <<>>}]
  /\ MainLocalsEmpty

\* main, line 512.
m_start_season ==
  /\ m_pc = "start_season"
  /\ m_prompts' = Append(m_prompts, "start season")
  /\ IF m_stdin
     THEN /\ start_season' = SeasonOf(m_env, "START_SEASON", m_answers.start, 1999)
          /\ m_pc' = "end_season"
          /\ UNCHANGED m_result
     ELSE /\ m_result' = "raised"
          /\ m_pc' = "done"
          /\ UNCHANGED start_season
  /\ UNCHANGED <<mainInputs, m_events, end_season, data_len, batch_i, submitted,
                 successful_imports, m_success>>
  /\ UNCHANGED notMainVars

\* main, lines 513-518; min(seasons) raises ValueError on an empty range.
m_end_season ==
  /\ m_pc = "end_season"
  /\ m_prompts' = Append(m_prompts, "end season")
  /\ IF m_stdin
     THEN /\ end_season' = SeasonOf(m_env, "END_SEASON", m_answers.end, 2024)
          /\ IF start_season <= end_season'
             THEN m_pc' = "confirm" /\ UNCHANGED m_result
             ELSE m_pc' = "done" /\ m_result' = "raised"
     ELSE /\ m_result' = "raised"
          /\ m_pc' = "done"
          /\ UNCHANGED end_season
  /\ UNCHANGED <<mainInputs, m_events, start_season, data_len, batch_i, submitted,
                 successful_imports, m_success>>
  /\ UNCHANGED notMainVars

\* main, lines 520-527.
m_confirm ==
  /\ m_pc = "confirm"
  /\ IF "AUTOMATED_RUN" \notin m_env
     THEN /\ m_prompts' = Append(m_prompts, "continue")
          /\ IF ~m_stdin THEN m_pc' = "done" /\ m_result' = "raised"
             ELSE IF Proceeds(m_answers.proceed) THEN m_pc' = "db_config" /\ UNCHANGED m_result
             ELSE m_pc' = "done" /\ m_result' = "cancelled"
     ELSE /\ m_pc' = "db_config"
          /\ UNCHANGED <<m_prompts, m_result>>
  /\ UNCHANGED <<mainInputs, m_events, start_season, end_season, data_len, batch_i, submitted,
                 successful_imports, m_success>>
  /\ UNCHANGED notMainVars

\* main, line 530: get_db_config, lines 24-34; the answers are empty lines.
m_get_db_config ==
  /\ m_pc = "db_config"
  /\ IF m_stdin \/ DbPrompts(m_env) = <<>>
     THEN /\ m_prompts' = m_prompts \o DbPrompts(m_env)
          /\ m_pc' = "connect"
          /\ UNCHANGED m_result
     ELSE /\ m_prompts' = Append(m_prompts, Head(DbPrompts(m_env)))
          /\ m_pc' = "done"
          /\ m_result' = "raised"
  /\ UNCHANGED <<mainInputs, m_events, start_season, end_season, data_len, batch_i, submitted,
                 successful_imports, m_success>>
  /\ UNCHANGED notMainVars

\* main, lines 531-533: connect_to_database, lines 36-51.
m_connect_to_database ==
  /\ m_pc = "connect"
  /\ m_events' = Append(m_events, "connect")
  /\ \E connected \in BOOLEAN :
       IF connected THEN m_pc' = "load" /\ UNCHANGED m_result
       ELSE m_pc' = "done" /\ m_result' = "exit"
  /\ UNCHANGED <<mainInputs, m_prompts, start_season, end_season, data_len, batch_i, submitted,
                 successful_imports, m_success>>
  /\ UNCHANGED notMainVars

\* main, lines 536-539: load_nfl_data returns the frames or Nones.
m_load_nfl_data ==
  /\ m_pc = "load"
  /\ \E loaded \in BOOLEAN :
       IF loaded THEN m_pc' = "process" /\ UNCHANGED m_result
       ELSE m_pc' = "close" /\ m_result' = "exit"
  /\ UNCHANGED <<mainInputs, m_prompts, m_events, start_season, end_season, data_len, batch_i,
                 submitted, successful_imports, m_success>>
  /\ UNCHANGED notMainVars

\* main, line 542: process_data returns processed_data or raises.
m_process_data ==
  /\ m_pc = "process"
  /\ \/ /\ data_len' \in DataLengths
        /\ m_pc' = "import"
        /\ UNCHANGED m_result
     \/ /\ m_pc' = "close"
        /\ m_result' = "raised"
        /\ UNCHANGED data_len
  /\ UNCHANGED <<mainInputs, m_prompts, m_events, start_season, end_season, batch_i, submitted,
                 successful_imports, m_success>>
  /\ UNCHANGED notMainVars

\* import_to_database, lines 396-439: up to the first pass of the loop.
i_start ==
  /\ m_pc = "import"
  /\ batch_i' = 0
  /\ successful_imports' = 0
  /\ m_pc' = IF 0 < data_len THEN "batch" ELSE "import_return"
  /\ UNCHANGED <<mainInputs, m_prompts, m_events, start_season, end_season, data_len, submitted,
                 m_success, m_result>>
  /\ UNCHANGED notMainVars

\* import_to_database, lines 439-458: one pass of the loop; executemany
\* succeeds or raises mysql.connector.Error.
i_batch ==
  /\ m_pc = "batch"
  /\ \E ok \in BOOLEAN :
       /\ submitted' = Append(submitted, [from |-> Batch(batch_i, data_len).from,
                                          to |-> Batch(batch_i, data_len).to, ok |-> ok])
       /\ successful_imports' = IF ok
                                THEN successful_imports + (Batch(batch_i, data_len).to - Batch(batch_i, data_len).from)
                                ELSE successful_imports
  /\ batch_i' = batch_i + batch_size
  /\ m_pc' = IF batch_i + batch_size < data_len THEN "batch" ELSE "import_return"
  /\ UNCHANGED <<mainInputs, m_prompts, m_events, start_season, end_season, data_len,
                 m_success, m_result>>
  /\ UNCHANGED notMainVars

\* import_to_database, lines 460-462, and main, line 545.
i_return ==
  /\ m_pc = "import_return"
  /\ m_success' = {ImportReturn(successful_imports, data_len)}
  /\ m_pc' = "check_success"
  /\ UNCHANGED <<mainInputs, m_prompts, m_events, start_season, end_season, data_len, batch_i,
                 submitted, successful_imports, m_result>>
  /\ UNCHANGED notMainVars

\* main, lines 547-551: generate_summary, lines 464-502, whose queries may
\* raise.
m_generate_summary ==
  /\ m_pc = "check_success"
  /\ IF m_success = {TRUE}
     THEN /\ m_events' = Append(m_events, "summary")
          /\ \E ok \in BOOLEAN : m_result' = IF ok THEN "ok" ELSE "raised"
     ELSE /\ m_result' = "ok"
          /\ UNCHANGED m_events
  /\ m_pc' = "close"
  /\ UNCHANGED <<mainInputs, m_prompts, start_season, end_season, data_len, batch_i,
                 submitted, successful_imports, m_success>>
  /\ UNCHANGED notMainVars

\* main, lines 556-557.
m_close ==
  /\ m_pc = "close"
  /\ m_events' = Append(m_events, "closed")
  /\ m_pc' = "done"
  /\ UNCHANGED <<mainInputs, m_prompts, start_season, end_season, data_len, batch_i,
                 submitted, successful_imports, m_success, m_result>>
  /\ UNCHANGED notMainVars

NextStatsMain ==
  \/ m_start_season
  \/ m_end_season
  \/ m_confirm
  \/ m_get_db_config
  \/ m_connect_to_database
  \/ m_load_nfl_data
  \/ m_process_data
  \/ i_start
  \/ i_batch
  \/ i_return
  \/ m_generate_summary
  \/ m_close

SpecStatsMain ==
  InitStatsMain /\ [][NextStatsMain]_vars

Occurs(log, x) ==
  \E k \in 1..Len(log) : log[k] = x

\* C12: with AUTOMATED_RUN, START_SEASON, END_SEASON and the five DB_
\* variables set, main never prompts for input; without AUTOMATED_RUN, a
\* confirmation answer other than 'y' cancels the run before a database
\* connection is opened.
C12_AutomatedNeverPrompts ==
  /\ AutomatedEnv \subseteq m_env => m_prompts = <<>>
  /\ ("AUTOMATED_RUN" \notin m_env /\ Occurs(m_prompts, "continue") /\ m_answers.proceed # T_y) =>
       (~Occurs(m_events, "connect") /\ m_result \in {"cancelled", "raised"})

\* C13: import_to_database submits every record once, in order, in
\* consecutive batches of at most 2000 records, ceil(n/2000) of them; a
\* batch that fails does not stop the later ones; it returns True iff no
\* batch failed; and main generates the summary only in that case.
C13_BatchesCoverData ==
  /\ \A k \in 1..Len(submitted) :
       /\ submitted[k].from = (IF k = 1 THEN 0 ELSE submitted[k - 1].to)
       /\ submitted[k].from < submitted[k].to
       /\ submitted[k].to - submitted[k].from <= 2000
       /\ submitted[k].to <= data_len
  /\ m_success # {} =>
       /\ (IF submitted = <<>> THEN 0 ELSE submitted[Len(submitted)].to) = data_len
       /\ Len(submitted) * 2000 >= data_len
       /\ (Len(submitted) - 1) * 2000 < data_len \/ data_len = 0
       /\ m_success = {\A k \in 1..Len(submitted) : submitted[k].ok}
  /\ Occurs(m_events, "summary") => m_success = {TRUE}
  /\ (m_pc \in {"close", "done"} /\ m_success = {TRUE}) => Occurs(m_events, "summary")

\* An import of 4001 records whose first batch failed: the two later batches
\* were submitted all the same, the function returned False and main closed
\* the connection without a summary.
C13_Witness ==
  /\ m_pc = "done"
  /\ data_len = 4001
  /\ Len(submitted) = 3
  /\ ~submitted[1].ok
  /\ submitted[2].ok
  /\ submitted[3].ok
  /\ submitted[3].to - submitted[3].from = 1
  /\ m_success = {FALSE}
  /\ ~Occurs(m_events, "summary")
  /\ Occurs(m_events, "closed")

(***************************************************************************)
(* The export scripts and the keeper tools as sequences of database and    *)
(* file operations: export_players.py, export_rosters.py,                  *)
(* export_lineup_submissions.py, restore_lineups.py,                       *)
(* calculate_true_keepers.py, find_missing_keepers.py and                  *)
(* reconstruct_original_keepers.py.  Every cursor.execute and every write  *)
(* of a statement to an output file is one step, in the order of the       *)
(* source; a loop over the rows of a query or of a CSV file is unrolled    *)
(* x_rows times.  Statements are taken to succeed once the connection is   *)
(* open; a connection that cannot be opened is modelled.                   *)
(***************************************************************************)
Tables ==
  {"nfl_players", "fantasy_teams", "fantasy_team_players", "lineup_submissions",
   "lineup_positions", "draft_picks", "historical_keepers"}

Scripts ==
  {"export_players", "export_rosters", "export_lineup_submissions",
   "restore_lineups", "calculate_true_keepers", "find_missing_keepers",
   "reconstruct_original_keepers"}

\* The databases the scripts start from: every table empty or with one row.
Databases == [Tables -> {{}, {1}}]

Connect == [op |-> "connect", verb |-> "", table |-> ""]
Close == [op |-> "close", verb |-> "", table |-> ""]
Execute(verb, table) == [op |-> "execute", verb |-> verb, table |-> table]
\* f.write / csv writer: what goes to an output file.  verb is "ROWS" for the
\* rows of a CSV export, and the SQL verb for a statement of a .sql file.
WriteFile(verb, table) == [op |-> "write", verb |-> verb, table |-> table]

RECURSIVE Repeat(_, _)
Repeat(n, steps) == IF n = 0 THEN <<>> ELSE steps \o Repeat(n - 1, steps)

\* export_players.py, main (156-183): export_players (35-106) and
\* export_fantasy_teams (108-154) on one connection.
export_players_steps ==
  << Connect,
     Execute("SELECT", "nfl_players"),      \* line 55
     WriteFile("ROWS", "nfl_players"),      \* lines 62-80
     Execute("SELECT", "nfl_players"),      \* line 85, the position counts
     Execute("SELECT", "fantasy_teams"),    \* line 124
     WriteFile("ROWS", "fantasy_teams"),    \* lines 132-143
     Close >>

\* export_rosters.py, main (205-223): export_fantasy_rosters (6-102) and
\* export_free_agents (104-203), each with a connection of its own.
export_rosters_steps ==
  << Connect,
     Execute("SELECT", "fantasy_team_players"),   \* line 56
     WriteFile("ROWS", "fantasy_team_players"),   \* lines 68-88
     Close,
     Connect,
     Execute("SELECT", "nfl_players"),            \* line 157
     WriteFile("ROWS", "nfl_players"),            \* lines 169-189
     Close >>

\* export_lineup_submissions.py, main (230-290): get_locked_lineups (34-81),
\* then get_lineup_positions (83-123) for each of the n lineups, then the CSV;
\* no file when there is no locked lineup (lines 142-144).
export_lineup_submissions_steps(n) ==
  << Connect, Execute("SELECT", "lineup_submissions") >>
  \o Repeat(n, << Execute("SELECT", "lineup_positions") >>)
  \o (IF n > 0 THEN << WriteFile("ROWS", "lineup_positions") >> ELSE <<>>)
  \o << Close >>

\* restore_lineups.py, main (156-185): find_missing_players (42-109) looks up
\* each of the n CSV entries (lines 54, 66, 82) and closes the connection;
\* generate_restoration_sql (111-154) makes one INSERT for each missing player,
\* which main writes to restore_missing_lineups.sql (lines 173-178).
restore_lineups_steps(n) ==
  << Connect >>
  \o Repeat(n, << Execute("SELECT", "nfl_players"),
                  Execute("SELECT", "lineup_submissions"),
                  Execute("SELECT", "lineup_positions") >>)
  \o << Close >>
  \o Repeat(n, << WriteFile("INSERT", "lineup_positions") >>)

\* The variant of calculate_true_keepers.py that runs the statements it
\* generates instead of writing them.
calculate_true_keepers_steps_Applied(n) ==
  << Connect,
     Execute("SELECT", "draft_picks"),
     Execute("SELECT", "nfl_players") >>
  \o Repeat(n, << Execute("SELECT", "nfl_players") >>)
  \o << Execute("DELETE", "historical_keepers"),
        Execute("INSERT", "historical_keepers"),
        WriteFile("SELECT", "historical_keepers"),
        Close >>

\* calculate_true_keepers.py, main (145-177): get_drafted_player_ids (line 38),
\* get_espn_mapping (line 51), generate_sql (95-143): one SELECT for each of the
\* n keepers (line 104), then the file replace_all_keepers.sql with the DELETE
\* (line 125), the INSERT (lines 128-135) and the verification SELECT (138-140).
calculate_true_keepers_steps(n) ==
  << Connect,
     Execute("SELECT", "draft_picks"),
     Execute("SELECT", "nfl_players") >>
  \o Repeat(n, << Execute("SELECT", "nfl_players") >>)
  \o << WriteFile("DELETE", "historical_keepers"),
        WriteFile("INSERT", "historical_keepers"),
        WriteFile("SELECT", "historical_keepers"),
        Close >>

\* find_missing_keepers.py, main (99-191): get_current_keepers (line 35),
\* get_drafted_players (line 56), get_espn_mapping (line 72); with n > 0 missing
\* keepers the file insert_missing_keepers.sql gets the INSERT (lines 164-166),
\* one looked-up row for each of them (lines 176, 182) and the verification
\* SELECT (line 185).
find_missing_keepers_steps(n) ==
  << Connect,
     Execute("SELECT", "fantasy_team_players"),
     Execute("SELECT", "fantasy_team_players"),
     Execute("SELECT", "nfl_players") >>
  \o (IF n > 0
        THEN << WriteFile("INSERT", "historical_keepers") >>
             \o Repeat(n, << Execute("SELECT", "nfl_players") >>)
             \o << WriteFile("SELECT", "historical_keepers") >>
        ELSE <<>>)
  \o << Close >>

\* reconstruct_original_keepers.py, main (311-356): get_keeper_players
\* (line 99); with no keeper row main returns (lines 327-329), otherwise
\* generate_insert_sql (212-267) writes the INSERT and the verification SELECT
\* and generate_detailed_report (269-309) writes the CSV report.
reconstruct_original_keepers_steps(n) ==
  << Connect, Execute("SELECT", "fantasy_team_players") >>
  \o (IF n > 0
        THEN << WriteFile("INSERT", "historical_keepers"),
                WriteFile("SELECT", "historical_keepers"),
                WriteFile("ROWS", "historical_keepers") >>
        ELSE <<>>)
  \o << Close >>

ScriptSteps(script, n) ==
  CASE script = "export_players" -> export_players_steps
    [] script = "export_rosters" -> export_rosters_steps
    [] script = "export_lineup_submissions" -> export_lineup_submissions_steps(n)
    [] script = "restore_lineups" -> restore_lineups_steps(n)
    [] script = "calculate_true_keepers" -> calculate_true_keepers_steps(n)
    [] script = "find_missing_keepers" -> find_missing_keepers_steps(n)
    [] script = "reconstruct_original_keepers" -> reconstruct_original_keepers_steps(n)

\* What the server does with a statement handed to cursor.execute.
NewRow(rows) == Cardinality(rows) + 1

ExecuteStatement(db, st) ==
  CASE st.verb = "SELECT" -> db
    [] st.verb = "INSERT" ->
         [db EXCEPT ![st.table] = @ \cup {NewRow(@)}]
    [] st.verb = "DELETE" -> [db EXCEPT ![st.table] = {}]

\* The steps left when mysql.connector.connect raises: none.  export_rosters.py
\* calls sys.exit(1) in its except clauses (lines 90-95, 191-196);
\* export_players.py, export_lineup_submissions.py and
\* reconstruct_original_keepers.py return from main when connect_to_database
\* gives None; in the other scripts the exception ends the run.
AfterConnectFailure(script, todo) == <<>>

InitReadOnly ==
  /\ RestIdleFrame
  /\ x_pc = "run"
  /\ x_script \in Scripts
  /\ x_rows \in 0..MaxFrameRows
  /\ x_db0 \in Databases
  /\ x_db = x_db0
  /\ x_todo = ScriptSteps(x_script, x_rows)
  /\ x_executed = <<>>
  /\ x_file = <<>>

\* mysql.connector.connect(**DB_CONFIG)
x_connect ==
  /\ x_pc = "run"
  /\ x_todo # <<>>
  /\ Head(x_todo).op = "connect"
  /\ \E ok \in BOOLEAN :
       x_todo' = IF ok THEN Tail(x_todo)
                 ELSE AfterConnectFailure(x_script, Tail(x_todo))
  /\ UNCHANGED <<frameInputs, x_pc, x_db, x_executed, x_file>>
  /\ UNCHANGED notFrameVars

\* cursor.execute(statement)
x_execute ==
  /\ x_pc = "run"
  /\ x_todo # <<>>
  /\ Head(x_todo).op = "execute"
  /\ x_db' = ExecuteStatement(x_db, Head(x_todo))
  /\ x_executed' = Append(x_executed, Head(x_todo))
  /\ x_todo' = Tail(x_todo)
  /\ UNCHANGED <<frameInputs, x_pc, x_file>>
  /\ UNCHANGED notFrameVars

\* f.write(statement) / writer.writerow(row)
x_write ==
  /\ x_pc = "run"
  /\ x_todo # <<>>
  /\ Head(x_todo).op = "write"
  /\ x_file' = Append(x_file, Head(x_todo))
  /\ x_todo' = Tail(x_todo)
  /\ UNCHANGED <<frameInputs, x_pc, x_db, x_executed>>
  /\ UNCHANGED notFrameVars

\* connection.close(): no script calls commit or rollback before it, and the
\* statements executed are the only ones the server has seen.
x_close ==
  /\ x_pc = "run"
  /\ x_todo # <<>>
  /\ Head(x_todo).op = "close"
  /\ x_todo' = Tail(x_todo)
  /\ UNCHANGED <<frameInputs, x_pc, x_db, x_executed, x_file>>
  /\ UNCHANGED notFrameVars

\* the script ends
x_exit ==
  /\ x_pc = "run"
  /\ x_todo = <<>>
  /\ x_pc' = "done"
  /\ UNCHANGED <<frameInputs, x_todo, x_db, x_executed, x_file>>
  /\ UNCHANGED notFrameVars

NextReadOnly ==
  \/ x_connect
  \/ x_execute
  \/ x_write
  \/ x_close
  \/ x_exit

SpecReadOnly == InitReadOnly /\ [][NextReadOnly]_vars

Modifying == {"INSERT", "DELETE", "UPDATE"}

\* The INSERT and DELETE statements a run of the script produces.
Produced(script, n) ==
  { ScriptSteps(script, n)[i].verb : i \in DOMAIN ScriptSteps(script, n) }
    \cap Modifying

Verbs(log) == { log[i].verb : i \in DOMAIN log }

\* C14: a run of export_players, export_rosters, export_lineup_submissions,
\* restore_lineups, calculate_true_keepers, find_missing_keepers or
\* reconstruct_original_keepers leaves every table of the database as it was:
\* every statement it executes is a SELECT, and the INSERT and DELETE statements
\* it produces are in its output file when it has ended (a run that executed
\* nothing could not connect and produces nothing), never executed.
C14_ToolsOnlySelect ==
  /\ x_db = x_db0
  /\ Verbs(x_executed) \subseteq {"SELECT"}
  /\ (x_pc = "done" /\ x_executed # <<>>)
       => Produced(x_script, x_rows) \subseteq Verbs(x_file)

\* calculate_true_keepers has ended with rows in historical_keepers: the DELETE
\* and the INSERT are in its file, its SELECTs were executed.
C14_Witness ==
  /\ x_pc = "done"
  /\ x_script = "calculate_true_keepers"
  /\ x_rows > 0
  /\ x_db0["historical_keepers"] # {}
  /\ Len(x_executed) = 2 + x_rows
  /\ {"DELETE", "INSERT"} \subseteq Verbs(x_file)
  /\ x_db = x_db0

====
